---- MODULE Spec2Model ----
(***************************************************************************)
(* State-machine model of the operations toolbox server:                   *)
(*   - the job store, the API dispatcher (enqueue_job / cancel_job), the   *)
(*     worker entry point run_job with the bundled handlers, and the       *)
(*     scheduler's stale-job resubmission (specification Spec);            *)
(*   - the toolkit registry: SQL table, KV mirror, removal tombstones,     *)
(*     bundle install and the bundled seeder (SpecRegistry, and            *)
(*     SpecRegistrySeq where calls do not overlap);                        *)
(*   - refresh-token sessions (SpecAuth);                                  *)
(*   - the local login throttle (SpecThrottle);                            *)
(*   - the latency-sleuth scheduler's dispatch pass (SpecScheduler).       *)
(* Every Redis command (hget / hset / hvals) is one atomic step; a         *)
(* function that issues several commands is several steps, and the dict    *)
(* it holds between them is the process's local copy `job`.                *)
(***************************************************************************)
EXTENDS Integers, Sequences, FiniteSets, TLC

(***************************************************************************)
(* Bounds of the model.                                                    *)
(***************************************************************************)
MaxJobs == 1
MaxTasks == 1
MaxRows == 1
MaxCancels == 1
MaxTicks == 2
TickSeconds == 60
MaxSlugs == 1
MaxCallers == 2
MaxTokens == 3
RefreshTtl == 60
MaxTemplates == 1
MaxSchedulers == 2
MaxSchedJobs == 3

MaxLogins == 4

\* _has_active_job's list_jobs(limit=200), on the scale of MaxSchedJobs
JobScanLimit == 1

\* load passes (import attempts) of one process
MaxLoads == 3

\* PUT /toolkits/{slug} requests served
MaxUpdates == 3

\* characters of a slug text, and toolkit rows stored under slug texts
MaxSlugLen == 2
MaxStored == 2

\* bundle uploads served, members of a bundle, segments of a member's path
MaxIngests == 2
MaxEntries == 2
MaxPathLen == 4

\* imports of the probe toolkit's worker module in one worker process
MaxCopies == 3

\* POST /auth/refresh requests served at the same time
MaxRefreshers == 2

\* update_template calls
MaxEdits == 2

\* threads that call import_toolkit_module, and calls in all
MaxImporters == 2
MaxImports == 3

(***************************************************************************)
(* Program constants.                                                      *)
(***************************************************************************)
STALE_JOB_GRACE_SECONDS == 120
max_failed_attempts == 3
failure_window_seconds == 60
lockout_seconds == 120

JobIds == 1..MaxJobs
TaskIds == 1..MaxTasks
NoTask == 0

TERMINAL_STATUSES == {"succeeded", "failed", "cancelled"}

ZabbixType == "zabbix.bulk_add_hosts"
ProbeType == "latency-sleuth.run_probe"
UnknownType == "demo.run"
\* a type whose registered handler is `lambda payload: payload`
DemoType == "demo.echo"
JobTypes == {ZabbixType, ProbeType, UnknownType, DemoType}

NoJob == [id |-> 0]

VARIABLES
    clock,      \* wall clock, seconds
    jobs,       \* the JOBS_KEY hash: job id -> stored record, or NoJob
    pending,    \* broker queue: task ids sent and not yet delivered
    taskArg,    \* task id -> job id passed as args=[job.id]
    revoked,    \* task ids revoked with terminate=True
    handlers,   \* _HANDLERS: the job types with a registered handler
    enq,        \* the API's enqueue_job call
    can,        \* the API's cancel_job call
    cancels,    \* cancel_job calls started so far
    wk,         \* task id -> the worker's run_job execution of that task
    rs,         \* the scheduler's _resubmit_stale_jobs pass
    handlerRuns, \* job id -> number of handler invocations (observer)
    preCancelled, \* job id -> handlerRuns when cancel_job finished a queued job, else -1 (observer)
    sql,        \* the toolkits table: slug -> row, or NoRow
    tomb,       \* the toolkit_removals table: slugs with a ToolkitRemoval row
    kv,         \* the REGISTRY_KEY hash: slug -> cached record, or NoRow
    rp,         \* caller -> the registry call it is executing
    removedBundled, \* slug -> its last removal deleted a bundled record and it was not created or installed since (observer)
    issuedTokens, \* the refresh tokens issued so far: jti -> claims
    sessions,   \* the auth_sessions table: one record per login
    userActive, \* users.is_active of the token's subject
    authResp,   \* the answer of the last /auth/refresh or /auth/logout (observer)
    failures,   \* the throttle's failure key: counter and expiry, or NoKey
    lock,       \* the throttle's lock key: its expiry, or NoKey
    lg,         \* the local login request being served
    thrResp,    \* the answer of the last local login (observer)
    answers,    \* the answers of the local logins served so far, in order (observer)
    auditLog,   \* audit_logs: the committed auth.login.throttled rows
    failureLog, \* auth.login.failure rows committed to the audit log
    templates,  \* the TEMPLATES_KEY hash: template id -> record
    sjobs,      \* the JOBS_KEY entries created by scheduled dispatch
    sent,       \* broker tasks sent by scheduled dispatch: task id -> job id
    sch,        \* scheduler instance -> its _dispatch_due_probes pass
    reservations, \* successful reserve_template_for_run calls, in order (observer)
    man,        \* the API's probe_templates_run call
    tkRecord,   \* slug -> what get_toolkit returns: "none", "disabled" or "enabled"
    bundle,     \* slug -> what the bundle's backend and worker modules do when loaded
    appRef,     \* _APP_REF is set
    celeryRef,  \* _CELERY_REF is set
    loaded,     \* _LOADED_SLUGS
    routers,    \* slug -> number of app.include_router calls for its router
    registered, \* slug -> number of register calls that returned
    act,        \* caller -> its activate_toolkit call
    loads,      \* load passes run so far
    lastLoad,   \* the last load pass and what it logged (observer)
    upd,        \* the toolkits_update request being served
    updates,    \* toolkits_update requests started so far
    activations, \* activate_toolkit calls made by toolkits_update so far (observer)
    slugRows,   \* the primary keys of the toolkits table, as texts
    slugAnswer, \* the operation that last took a slug text, and its outcome (observer)
    fsFiles,    \* the files written by zip extraction, as absolute paths
    fsDirs,     \* the directories made by zip extraction, as absolute paths
    bundleFile, \* the bundle file written by the request being served exists
    extractDir, \* the extraction directory exists
    destDir,    \* {storage}/{slug}: "absent", "installed" or "partial"
    ingRow,     \* number of writes made to the slug's toolkit record
    ing,        \* the toolkits_install request being served
    ingests,    \* toolkits_install requests started so far
    stMods,     \* the copies of the probe toolkit's worker module imported so far: their globals
    stThreads,  \* scheduler threads running in the worker process
    stHandler,  \* the module copy whose _handle_run_probe is in _HANDLERS, 0 for none
    stLoaded,   \* the probe toolkit's slug is in _LOADED_SLUGS
    stForked,   \* the process is a pool child forked from the worker's main process
    st,         \* what the worker process is executing
    rf,         \* request -> the POST /auth/refresh it is serving
    refreshed,  \* token -> the number of refreshes that answered 200 for it (observer)
    cancelSaw,  \* job id -> the status cancel_job loaded before it went on, else "none" (observer)
    ed,         \* the update_template call being served
    edits,      \* update_template calls started so far
    modTable,   \* sys.modules under the toolkit namespaces: name -> whose module it is
    metaPath,   \* toolkit finders in sys.meta_path
    im,         \* thread -> the import_toolkit_module call it is in
    imports     \* import_toolkit_module calls started so far

jobVars == <<jobs, pending, taskArg, revoked, handlers, enq, can, cancels, wk, rs, handlerRuns, preCancelled>>

regVars == <<sql, tomb, kv, rp, removedBundled>>

authVars == <<issuedTokens, sessions, userActive, authResp>>

thrVars == <<failures, lock, lg, thrResp, answers, auditLog, failureLog>>

schVars == <<templates, sjobs, sent, sch, reservations, man>>

ldVars == <<tkRecord, bundle, appRef, celeryRef, loaded, routers, registered, act, loads, lastLoad>>

enVars == <<upd, updates, activations>>

slVars == <<slugRows, slugAnswer>>

inVars == <<fsFiles, fsDirs, bundleFile, extractDir, destDir, ingRow, ing, ingests>>

stVars == <<stMods, stThreads, stHandler, stLoaded, stForked, st>>

\* the variables of one process's threads and module table
rfVars == <<rf, refreshed>>

obsVars == <<cancelSaw>>

edVars == <<ed, edits>>

imVars == <<modTable, metaPath, im, imports>>

procVars == <<stVars, rfVars, obsVars, edVars, imVars>>

\* the variables of the API routes
rtVars == <<enVars, slVars, inVars>>

coreVars == <<clock, jobVars, regVars, authVars, thrVars, schVars>>

\* the variables outside the job substrate
others == <<regVars, authVars, thrVars, schVars, ldVars, rtVars, procVars>>

\* the variables outside the toolkit registry
notRegistry == <<clock, jobVars, authVars, thrVars, schVars, ldVars, rtVars, procVars>>

vars == <<clock, jobVars, others>>

(***************************************************************************)
(* Job store (backend/app/services/jobs.py).                               *)
(***************************************************************************)
FreeJobIds == {j \in JobIds : jobs[j] = NoJob}

FreeTaskIds == {t \in TaskIds : taskArg[t] = 0}

\* create_job: the record _normalise builds
NewJob(id, type, rows) ==
    [id |-> id, type |-> type, rows |-> rows, status |-> "queued", progress |-> 0,
     logs |-> <<>>, result |-> "null", error |-> "null",
     celery_task_id |-> NoTask, updated_at |-> clock]

\* save_job: stamp updated_at and overwrite the whole record
SaveJob(job) == jobs' = [jobs EXCEPT ![job.id] = [job EXCEPT !.updated_at = clock]]

\* append_log: append to the caller's dict, then save_job
WithLog(job, message) == [job EXCEPT !.logs = Append(@, message)]

\* mark_cancelling(job, message)
MarkCancelling(job, message) == WithLog([job EXCEPT !.status = "cancelling"], message)

\* mark_cancelled(job, message)
MarkCancelled(job, message) == WithLog([job EXCEPT !.status = "cancelled"], message)

\* int(idx / total * 100) with total = max(len(rows), 1)
Max(a, b) == IF a >= b THEN a ELSE b

Progress(idx, rows) == (idx * 100) \div Max(rows, 1)

(***************************************************************************)
(* API dispatcher (backend/app/worker_client.py).                          *)
(***************************************************************************)
EnqIdle == [pc |-> "idle", job |-> NoJob, task |-> NoTask]

\* enqueue_job, line 13: job_store.create_job(toolkit, operation, payload)
EnqueueCreate ==
    /\ enq.pc = "idle"
    /\ FreeJobIds # {}
    /\ \E type \in JobTypes, rows \in 1..MaxRows :
         LET id == CHOOSE j \in FreeJobIds : \A k \in FreeJobIds : j <= k
             job == NewJob(id, type, rows)
         IN /\ jobs' = [jobs EXCEPT ![id] = job]
            /\ enq' = [pc |-> "send", job |-> job, task |-> NoTask]
    /\ UNCHANGED <<others, clock, pending, taskArg, revoked, handlers, can, cancels, wk, rs, handlerRuns, preCancelled>>

\* enqueue_job, line 14: celery_app.send_task("worker.tasks.run_job", args=[job["id"]])
EnqueueSend ==
    /\ enq.pc = "send"
    /\ FreeTaskIds # {}
    /\ LET t == CHOOSE x \in FreeTaskIds : \A y \in FreeTaskIds : x <= y
       IN /\ taskArg' = [taskArg EXCEPT ![t] = enq.job.id]
          /\ pending' = pending \cup {t}
          /\ enq' = [enq EXCEPT !.pc = "attach", !.task = t]
    /\ UNCHANGED <<others, clock, jobs, revoked, handlers, can, cancels, wk, rs, handlerRuns, preCancelled>>

\* enqueue_job, line 14 raising (broker unreachable): the exception propagates
EnqueueSendFails ==
    /\ enq.pc = "send"
    /\ enq' = [enq EXCEPT !.pc = "raised"]
    /\ UNCHANGED <<others, clock, jobs, pending, taskArg, revoked, handlers, can, cancels, wk, rs, handlerRuns, preCancelled>>

\* enqueue_job, line 15: job_store.attach_celery_task(job, result.id)
AttachCeleryTask(job, task) == [job EXCEPT !.celery_task_id = task]

EnqueueAttach ==
    /\ enq.pc = "attach"
    /\ LET job == AttachCeleryTask(enq.job, enq.task)
       IN /\ SaveJob(job)
          /\ enq' = [enq EXCEPT !.pc = "done", !.job = job]
    /\ UNCHANGED <<others, clock, pending, taskArg, revoked, handlers, can, cancels, wk, rs, handlerRuns, preCancelled>>

CanIdle == [pc |-> "idle", job |-> NoJob, prev |-> "none", target |-> 0]

\* cancel_job, lines 31-37: load the job; absent or terminal returns at once
CancelGet ==
    /\ can.pc = "idle"
    /\ cancels < MaxCancels
    /\ cancels' = cancels + 1
    /\ \E id \in JobIds :
         LET job == jobs[id]
         IN IF job = NoJob \/ job.status \in TERMINAL_STATUSES
            THEN can' = CanIdle /\ UNCHANGED cancelSaw
            ELSE /\ can' = [pc |-> "mark", job |-> job, prev |-> job.status, target |-> id]
                 /\ cancelSaw' = [cancelSaw EXCEPT ![id] = job.status]
    /\ UNCHANGED <<regVars, authVars, thrVars, schVars, ldVars, rtVars, stVars, rfVars, edVars, imVars>>
    /\ UNCHANGED <<clock, jobs, pending, taskArg, revoked, handlers, enq, wk, rs, handlerRuns, preCancelled>>

\* cancel_job, line 38: job_store.mark_cancelling(job, "Cancellation requested")
CancelMarkCancelling ==
    /\ can.pc = "mark"
    /\ LET job == MarkCancelling(can.job, "Cancellation requested")
       IN /\ SaveJob(job)
          /\ can' = [can EXCEPT !.pc = "revoke", !.job = job]
    /\ UNCHANGED <<others, clock, pending, taskArg, revoked, handlers, enq, cancels, wk, rs, handlerRuns, preCancelled>>

\* cancel_job, lines 40-42: revoke the attached broker task with terminate=True
CancelRevoke ==
    /\ can.pc = "revoke"
    /\ revoked' = IF can.job.celery_task_id # NoTask
                  THEN revoked \cup {can.job.celery_task_id}
                  ELSE revoked
    /\ can' = [can EXCEPT !.pc = "finish"]
    /\ UNCHANGED <<others, clock, jobs, pending, taskArg, handlers, enq, cancels, wk, rs, handlerRuns, preCancelled>>

\* cancel_job, lines 44-49: queued before -> mark_cancelled, otherwise a log line
CancelFinishJob(job, prev) ==
    IF prev = "queued"
    THEN MarkCancelled(job, "Job cancelled before execution")
    ELSE WithLog(job, "Cancellation signal sent to worker")

CancelFinish ==
    /\ can.pc = "finish"
    /\ SaveJob(CancelFinishJob(can.job, can.prev))
    /\ can' = CanIdle
    /\ preCancelled' = IF can.prev = "queued"
                       THEN [preCancelled EXCEPT ![can.target] = handlerRuns[can.target]]
                       ELSE preCancelled
    /\ UNCHANGED <<others, clock, pending, taskArg, revoked, handlers, enq, cancels, wk, rs, handlerRuns>>

(***************************************************************************)
(* Worker entry point (backend/worker/tasks.py).                           *)
(***************************************************************************)
WkIdle == [pc |-> "idle", job |-> NoJob, idx |-> 0]

\* a run_job that looks only for a missing job
AfterLoadUnchecked(job) == IF job = NoJob THEN "done" ELSE "set_running"

\* where run_job goes after loading the job, lines 50-58
AfterLoad(job) ==
    IF job = NoJob THEN "done"
    ELSE IF job.status = "cancelling" THEN "ack_cancel"
    ELSE IF job.status = "cancelled" THEN "done"
    ELSE "set_running"

\* run_job, line 50: the broker delivers task t and run_job loads the job
RunJobGet(t) ==
    /\ wk[t].pc = "idle"
    /\ t \in pending
    /\ t \notin revoked
    /\ pending' = pending \ {t}
    /\ LET job == jobs[taskArg[t]]
       IN wk' = [wk EXCEPT ![t] = [pc |-> AfterLoad(job), job |-> job, idx |-> 0]]
    /\ UNCHANGED <<others, clock, jobs, taskArg, revoked, handlers, enq, can, cancels, rs, handlerRuns, preCancelled>>

\* a task revoked before a worker started it is discarded by the worker
RevokedTaskDiscarded(t) ==
    /\ wk[t].pc = "idle"
    /\ t \in pending
    /\ t \in revoked
    /\ pending' = pending \ {t}
    /\ wk' = [wk EXCEPT ![t].pc = "discarded"]
    /\ UNCHANGED <<others, clock, jobs, taskArg, revoked, handlers, enq, can, cancels, rs, handlerRuns, preCancelled>>

Executing(t) == wk[t].pc \notin {"idle", "done", "discarded", "killed"}

\* revoke(task_id, terminate=True) on a task that is executing: the worker
\* process running it is killed at whatever point it has reached
WorkerTerminated(t) ==
    /\ Executing(t)
    /\ t \in revoked
    /\ wk' = [wk EXCEPT ![t].pc = "killed"]
    /\ UNCHANGED <<others, clock, jobs, pending, taskArg, revoked, handlers, enq, can, cancels, rs, handlerRuns, preCancelled>>

\* one store write of the worker: save the dict and move on
WorkerSave(t, job, pc) ==
    /\ SaveJob(job)
    /\ wk' = [wk EXCEPT ![t].job = job, ![t].pc = pc]

\* run_job, lines 54-56
RunJobAckCancel(t) ==
    /\ wk[t].pc = "ack_cancel"
    /\ WorkerSave(t, MarkCancelled(wk[t].job, "Cancellation acknowledged before execution"), "done")
    /\ UNCHANGED <<others, clock, pending, taskArg, revoked, handlers, enq, can, cancels, rs, handlerRuns, preCancelled>>

\* run_job, lines 60-62
RunningJob(job) == [job EXCEPT !.status = "running", !.progress = 0]

RunJobSetRunning(t) ==
    /\ wk[t].pc = "set_running"
    /\ WorkerSave(t, RunningJob(wk[t].job), "log_started")
    /\ UNCHANGED <<others, clock, pending, taskArg, revoked, handlers, enq, can, cancels, rs, handlerRuns, preCancelled>>

\* run_job, line 63
RunJobLogStarted(t) ==
    /\ wk[t].pc = "log_started"
    /\ WorkerSave(t, WithLog(wk[t].job, "Job execution started"), "invoke")
    /\ UNCHANGED <<others, clock, pending, taskArg, revoked, handlers, enq, can, cancels, rs, handlerRuns, preCancelled>>

\* an except clause that logs the error and leaves the status alone
LoggedErrorOnly(job) == WithLog(job, "Error")

\* run_job, lines 72-74: status failed and the "Error: ..." log line
FailedJob(job) == WithLog([job EXCEPT !.status = "failed"], "Error")

\* _ensure_handler, lines 30-45, finding no handler: run_job raises ValueError
RunJobNoHandler(t) ==
    /\ wk[t].pc = "invoke"
    /\ wk[t].job.type \notin handlers
    /\ WorkerSave(t, FailedJob(wk[t].job), "set_error")
    /\ UNCHANGED <<others, clock, pending, taskArg, revoked, handlers, enq, can, cancels, rs, handlerRuns, preCancelled>>

\* the handler raising before its first write (instance or template not found)
HandlerRaises(t) ==
    /\ wk[t].pc = "invoke"
    /\ wk[t].job.type \in handlers
    /\ handlerRuns' = [handlerRuns EXCEPT ![wk[t].job.id] = @ + 1]
    /\ WorkerSave(t, FailedJob(wk[t].job), "set_error")
    /\ UNCHANGED <<others, clock, pending, taskArg, revoked, handlers, enq, can, cancels, rs, preCancelled>>

\* run_job, lines 75-77: job["error"] = str(exc), then the finally save
ErrorJob(job) == [job EXCEPT !.error = "exc"]

RunJobSetError(t) ==
    /\ wk[t].pc = "set_error"
    /\ WorkerSave(t, ErrorJob(wk[t].job), "done")
    /\ UNCHANGED <<others, clock, pending, taskArg, revoked, handlers, enq, can, cancels, rs, handlerRuns, preCancelled>>

\* run_job, lines 71 and 77: a handler that returns the dict it was given,
\* without touching status or progress; the finally clause saves that dict
DemoHandlerReturns(t) ==
    /\ wk[t].pc = "invoke"
    /\ wk[t].job.type \in handlers
    /\ wk[t].job.type = DemoType
    /\ handlerRuns' = [handlerRuns EXCEPT ![wk[t].job.id] = @ + 1]
    /\ WorkerSave(t, wk[t].job, "done")
    /\ UNCHANGED <<others, clock, pending, taskArg, revoked, handlers, enq, can, cancels, rs, preCancelled>>

\* run_job, line 77: the finally save of the dict the handler returned
RunJobFinalSave(t) ==
    /\ wk[t].pc = "final_save"
    /\ WorkerSave(t, wk[t].job, "done")
    /\ UNCHANGED <<others, clock, pending, taskArg, revoked, handlers, enq, can, cancels, rs, handlerRuns, preCancelled>>

(***************************************************************************)
(* _handle_bulk_add_hosts (toolkits/bundled/zabbix/worker/tasks.py).       *)
(***************************************************************************)
\* lines 53-60: the handler's return value after the last row; it is not saved
\* by the handler, run_job's finally saves it
ZabbixSucceeded(job) ==
    [job EXCEPT !.status = "succeeded", !.progress = 100, !.result = "created"]

\* after a store write of row idx: the next row's poll, or the return
ZabbixAfterRow(t, job, idx) ==
    IF idx < job.rows
    THEN wk' = [wk EXCEPT ![t].job = job, ![t].pc = "z_poll", ![t].idx = idx + 1]
    ELSE wk' = [wk EXCEPT ![t].job = ZabbixSucceeded(job), ![t].pc = "final_save"]

\* line 28: run_job invokes the handler, which logs the target instance
ZabbixLogTarget(t) ==
    /\ wk[t].pc = "invoke"
    /\ wk[t].job.type \in handlers
    /\ wk[t].job.type = ZabbixType
    /\ handlerRuns' = [handlerRuns EXCEPT ![wk[t].job.id] = @ + 1]
    /\ WorkerSave(t, WithLog(wk[t].job, "Target instance"), "z_prepare")
    /\ UNCHANGED <<others, clock, pending, taskArg, revoked, handlers, enq, can, cancels, rs, preCancelled>>

\* line 29
ZabbixLogPreparing(t) ==
    /\ wk[t].pc = "z_prepare"
    /\ LET job == WithLog(wk[t].job, "Preparing to create")
       IN /\ SaveJob(job)
          /\ ZabbixAfterRow(t, job, 0)
    /\ UNCHANGED <<others, clock, pending, taskArg, revoked, handlers, enq, can, cancels, rs, handlerRuns, preCancelled>>

\* lines 33-35: the cancellation poll at the top of each row
ZabbixPoll(t) ==
    /\ wk[t].pc = "z_poll"
    /\ LET current == jobs[wk[t].job.id]
       IN IF current # NoJob /\ current.status = "cancelling"
          THEN wk' = [wk EXCEPT ![t].job = current, ![t].pc = "z_cancel"]
          ELSE wk' = [wk EXCEPT ![t].pc = "z_save"]
    /\ UNCHANGED <<others, clock, jobs, pending, taskArg, revoked, handlers, enq, can, cancels, rs, handlerRuns, preCancelled>>

\* lines 36-45: acknowledge the cancellation on the record just read
ZabbixCancelled(job, idx) ==
    MarkCancelled([job EXCEPT !.progress = Progress(idx - 1, job.rows),
                              !.result = "partial"],
                  "Cancellation acknowledged during execution")

ZabbixCancel(t) ==
    /\ wk[t].pc = "z_cancel"
    /\ WorkerSave(t, ZabbixCancelled(wk[t].job, wk[t].idx), "final_save")
    /\ UNCHANGED <<others, clock, pending, taskArg, revoked, handlers, enq, can, cancels, rs, handlerRuns, preCancelled>>

\* lines 49-50
ZabbixSaveProgress(t) ==
    /\ wk[t].pc = "z_save"
    /\ WorkerSave(t, [wk[t].job EXCEPT !.progress = Progress(wk[t].idx, wk[t].job.rows)], "z_log")
    /\ UNCHANGED <<others, clock, pending, taskArg, revoked, handlers, enq, can, cancels, rs, handlerRuns, preCancelled>>

\* line 51
ZabbixLogRow(t) ==
    /\ wk[t].pc = "z_log"
    /\ LET job == WithLog(wk[t].job, "Simulated create")
       IN /\ SaveJob(job)
          /\ ZabbixAfterRow(t, job, wk[t].idx)
    /\ UNCHANGED <<others, clock, pending, taskArg, revoked, handlers, enq, can, cancels, rs, handlerRuns, preCancelled>>

(***************************************************************************)
(* _handle_run_probe (toolkits/latency_sleuth/worker/tasks.py).            *)
(***************************************************************************)
\* after a store write of sample idx: the next sample's poll, or the tail
ProbeAfterSample(t, job, idx) ==
    IF idx < job.rows
    THEN wk' = [wk EXCEPT ![t].job = job, ![t].pc = "p_poll", ![t].idx = idx + 1]
    ELSE wk' = [wk EXCEPT ![t].job = job, ![t].pc = "p_finish"]

\* line 72: run_job invokes the handler, which logs the probe it runs
ProbeLogRunning(t) ==
    /\ wk[t].pc = "invoke"
    /\ wk[t].job.type \in handlers
    /\ wk[t].job.type = ProbeType
    /\ handlerRuns' = [handlerRuns EXCEPT ![wk[t].job.id] = @ + 1]
    /\ LET job == WithLog(wk[t].job, "Running latency probe")
       IN /\ SaveJob(job)
          /\ ProbeAfterSample(t, job, 0)
    /\ UNCHANGED <<others, clock, pending, taskArg, revoked, handlers, enq, can, cancels, rs, preCancelled>>

\* lines 78-79: the cancellation poll at the top of each sample
ProbePoll(t) ==
    /\ wk[t].pc = "p_poll"
    /\ LET current == jobs[wk[t].job.id]
       IN IF current # NoJob /\ current.status = "cancelling"
          THEN wk' = [wk EXCEPT ![t].job = current, ![t].pc = "p_cancel"]
          ELSE wk' = [wk EXCEPT ![t].pc = "p_log"]
    /\ UNCHANGED <<others, clock, jobs, pending, taskArg, revoked, handlers, enq, can, cancels, rs, handlerRuns, preCancelled>>

\* line 80: return mark_cancelled(current, ...)
ProbeCancel(t) ==
    /\ wk[t].pc = "p_cancel"
    /\ WorkerSave(t, MarkCancelled(wk[t].job, "Probe cancellation requested"), "final_save")
    /\ UNCHANGED <<others, clock, pending, taskArg, revoked, handlers, enq, can, cancels, rs, handlerRuns, preCancelled>>

\* lines 82-86
ProbeSampleJob(job, idx) ==
    WithLog([job EXCEPT !.progress = Progress(idx, job.rows)], "Attempt")

ProbeLogSample(t) ==
    /\ wk[t].pc = "p_log"
    /\ WorkerSave(t, ProbeSampleJob(wk[t].job, wk[t].idx), "p_save")
    /\ UNCHANGED <<others, clock, pending, taskArg, revoked, handlers, enq, can, cancels, rs, handlerRuns, preCancelled>>

\* line 87
ProbeSaveSample(t) ==
    /\ wk[t].pc = "p_save"
    /\ SaveJob(wk[t].job)
    /\ ProbeAfterSample(t, wk[t].job, wk[t].idx)
    /\ UNCHANGED <<others, clock, pending, taskArg, revoked, handlers, enq, can, cancels, rs, handlerRuns, preCancelled>>

\* lines 91-93: only when the summary names notified channels
ProbeLogNotifications(t) ==
    /\ wk[t].pc = "p_finish"
    /\ WorkerSave(t, WithLog(wk[t].job, "Notifications dispatched"), "p_succeed")
    /\ UNCHANGED <<others, clock, pending, taskArg, revoked, handlers, enq, can, cancels, rs, handlerRuns, preCancelled>>

\* lines 95-99
ProbeSucceeded(job) ==
    [job EXCEPT !.status = "succeeded", !.progress = 100, !.result = "summary"]

ProbeSucceed(t) ==
    /\ wk[t].pc \in {"p_finish", "p_succeed"}
    /\ WorkerSave(t, ProbeSucceeded(wk[t].job), "final_save")
    /\ UNCHANGED <<others, clock, pending, taskArg, revoked, handlers, enq, can, cancels, rs, handlerRuns, preCancelled>>

(***************************************************************************)
(* _resubmit_stale_jobs (toolkits/latency_sleuth/worker/tasks.py).         *)
(***************************************************************************)
RsIdle == [pc |-> "idle", todo |-> <<>>, job |-> NoJob, task |-> NoTask]

\* lines 165-173: the filter applied to each listed job
IsStale(job, now) ==
    /\ job # NoJob
    /\ job.type = ProbeType
    /\ job.status = "queued"
    /\ now - job.updated_at >= STALE_JOB_GRACE_SECONDS

\* list_jobs: the records of the given ids, newest (highest id) first
RECURSIVE NewestFirst(_)
NewestFirst(ids) ==
    IF ids = {} THEN <<>>
    ELSE LET top == CHOOSE j \in ids : \A k \in ids : k <= j
         IN <<jobs[top]>> \o NewestFirst(ids \ {top})

\* lines 163-173: one hvals snapshot, filtered to the stale queued probe jobs
ResubmitScan ==
    /\ rs.pc = "idle"
    /\ LET todo == NewestFirst({j \in JobIds : IsStale(jobs[j], clock)})
       IN /\ todo # <<>>
          /\ rs' = [pc |-> "send", todo |-> Tail(todo), job |-> Head(todo), task |-> NoTask]
    /\ UNCHANGED <<others, clock, jobs, pending, taskArg, revoked, handlers, enq, can, cancels, wk, handlerRuns, preCancelled>>

\* lines 175-181: apply_async(args=[job["id"]])
ResubmitSend ==
    /\ rs.pc = "send"
    /\ FreeTaskIds # {}
    /\ LET t == CHOOSE x \in FreeTaskIds : \A y \in FreeTaskIds : x <= y
       IN /\ taskArg' = [taskArg EXCEPT ![t] = rs.job.id]
          /\ pending' = pending \cup {t}
          /\ rs' = [rs EXCEPT !.pc = "attach", !.task = t]
    /\ UNCHANGED <<others, clock, jobs, revoked, handlers, enq, can, cancels, wk, handlerRuns, preCancelled>>

\* the loop's next job, or the end of the pass
ResubmitNext(job) ==
    IF rs.todo = <<>>
    THEN rs' = RsIdle
    ELSE rs' = [pc |-> "send", todo |-> Tail(rs.todo), job |-> Head(rs.todo), task |-> NoTask]

\* lines 182-185: the send raised; status failed, error, and the log line
DispatchFailedJob(job) ==
    WithLog([job EXCEPT !.status = "failed", !.error = "exc"], "Error dispatching")

ResubmitSendFails ==
    /\ rs.pc = "send"
    /\ LET job == DispatchFailedJob(rs.job)
       IN /\ SaveJob(job)
          /\ rs' = [rs EXCEPT !.pc = "fail_save", !.job = job]
    /\ UNCHANGED <<others, clock, pending, taskArg, revoked, handlers, enq, can, cancels, wk, handlerRuns, preCancelled>>

\* lines 186-188
ResubmitFailSave ==
    /\ rs.pc = "fail_save"
    /\ SaveJob(rs.job)
    /\ ResubmitNext(rs.job)
    /\ UNCHANGED <<others, clock, pending, taskArg, revoked, handlers, enq, can, cancels, wk, handlerRuns, preCancelled>>

\* line 190
ResubmitAttach ==
    /\ rs.pc = "attach"
    /\ LET job == AttachCeleryTask(rs.job, rs.task)
       IN /\ SaveJob(job)
          /\ rs' = [rs EXCEPT !.pc = "log", !.job = job]
    /\ UNCHANGED <<others, clock, pending, taskArg, revoked, handlers, enq, can, cancels, wk, handlerRuns, preCancelled>>

\* line 191
ResubmitLog ==
    /\ rs.pc = "log"
    /\ SaveJob(WithLog(rs.job, "Resubmitted queued probe"))
    /\ ResubmitNext(rs.job)
    /\ UNCHANGED <<others, clock, pending, taskArg, revoked, handlers, enq, can, cancels, wk, handlerRuns, preCancelled>>

(***************************************************************************)
(* Time.                                                                   *)
(***************************************************************************)
Tick ==
    /\ clock < MaxTicks * TickSeconds
    /\ clock' = clock + TickSeconds
    /\ UNCHANGED <<jobVars, others>>

(***************************************************************************)
(* Specification of the job substrate.                                     *)
(***************************************************************************)
InitJobs ==
    /\ clock = 0
    /\ jobs = [j \in JobIds |-> NoJob]
    /\ pending = {}
    /\ taskArg = [t \in TaskIds |-> 0]
    /\ revoked = {}
    /\ handlers = {ZabbixType, ProbeType, DemoType}
    /\ enq = EnqIdle
    /\ can = CanIdle
    /\ cancels = 0
    /\ wk = [t \in TaskIds |-> WkIdle]
    /\ rs = RsIdle
    /\ handlerRuns = [j \in JobIds |-> 0]
    /\ preCancelled = [j \in JobIds |-> -1]
    /\ cancelSaw = [j \in JobIds |-> "none"]

Worker(t) ==
    \/ RunJobGet(t)
    \/ RevokedTaskDiscarded(t)
    \/ WorkerTerminated(t)
    \/ RunJobAckCancel(t)
    \/ RunJobSetRunning(t)
    \/ RunJobLogStarted(t)
    \/ RunJobNoHandler(t)
    \/ HandlerRaises(t)
    \/ RunJobSetError(t)
    \/ DemoHandlerReturns(t)
    \/ RunJobFinalSave(t)
    \/ ZabbixLogTarget(t)
    \/ ZabbixLogPreparing(t)
    \/ ZabbixPoll(t)
    \/ ZabbixCancel(t)
    \/ ZabbixSaveProgress(t)
    \/ ZabbixLogRow(t)
    \/ ProbeLogRunning(t)
    \/ ProbePoll(t)
    \/ ProbeCancel(t)
    \/ ProbeLogSample(t)
    \/ ProbeSaveSample(t)
    \/ ProbeLogNotifications(t)
    \/ ProbeSucceed(t)

Next ==
    \/ EnqueueCreate
    \/ EnqueueSend
    \/ EnqueueSendFails
    \/ EnqueueAttach
    \/ CancelGet
    \/ CancelMarkCancelling
    \/ CancelRevoke
    \/ CancelFinish
    \/ \E t \in TaskIds : Worker(t)
    \/ ResubmitScan
    \/ ResubmitSend
    \/ ResubmitSendFails
    \/ ResubmitFailSave
    \/ ResubmitAttach
    \/ ResubmitLog
    \/ Tick


\* Task ids come from a bounded set: the id of a task whose run_job has
\* returned stands for a fresh id again.  A resubmission or an enqueue that
\* was waiting to send its task then sends it, so that one job gets a second
\* delivery of run_job after the first.
TaskSlotReleased(t) ==
    /\ wk[t].pc = "done"
    /\ t \notin pending
    /\ t \notin revoked
    /\ taskArg' = [taskArg EXCEPT ![t] = 0]
    /\ wk' = [wk EXCEPT ![t] = WkIdle]
    /\ UNCHANGED <<others, clock, jobs, pending, revoked, handlers, enq, can, cancels, rs, handlerRuns, preCancelled>>

NextRedelivery ==
    \/ Next
    \/ \E t \in TaskIds : TaskSlotReleased(t)

(***************************************************************************)
(* Toolkit registry (backend/app/toolkits/registry.py), bundle install     *)
(* (install_utils.py) and the bundled seeder (seeder.py).  A SQL session   *)
(* (one transaction) is one atomic step and so is a Redis command; a       *)
(* registry function is the sequence of its steps, and several callers     *)
(* (API requests, the API's and the worker's start-up seeding) run them    *)
(* concurrently.                                                           *)
(***************************************************************************)
Slugs == 1..MaxSlugs

\* _BUNDLED_TOOLKITS: the slugs found under toolkits/bundled
BundledSlugs == {1}

Callers == 1..MaxCallers

NoRow == [origin |-> "none"]

NoRecs == [s \in Slugs |-> NoRow]

\* ToolkitRecord / Toolkit row: the fields the model keeps
Row(origin, enabled) == [origin |-> origin, enabled |-> enabled]

\* ToolkitCreate / ToolkitUpdate: `set` are the fields the payload carries
Payload(set, enabled) == [set |-> set, enabled |-> enabled]

NoPayload == Payload({}, FALSE)

CreatePayloads == {Payload({"enabled"}, e) : e \in BOOLEAN}

UpdatePayloads == {Payload({"enabled"}, e) : e \in BOOLEAN}

\* install_toolkit_from_directory, lines 194-228: the payload built from the
\* manifest; enabled is part of the update only when preserve_enabled is false
InstallPayload(enabled, preserve) ==
    Payload(IF preserve THEN {} ELSE {"enabled"}, enabled)

\* update_toolkit, lines 300-301: setattr for every field the payload carries
ApplyUpdate(row, pay) ==
    [row EXCEPT !.enabled = IF "enabled" \in pay.set THEN pay.enabled ELSE @]

RIdle ==
    [pc |-> "idle", op |-> "none", slug |-> 1, rec |-> NoRow, recs |-> NoRecs,
     ret |-> "none", pay |-> NoPayload, origin |-> "none", fresh |-> {}]

\* a caller starts operation op; fresh are the slugs whose bundled record was
\* deleted, and not created or installed again, before this call started
Begin(p, op, slug, pc, ret, pay, origin) ==
    /\ rp[p].pc = "idle"
    /\ rp' = [rp EXCEPT ![p] =
                 [pc |-> pc, op |-> op, slug |-> slug, rec |-> NoRow, recs |-> NoRecs,
                  ret |-> ret, pay |-> pay, origin |-> origin,
                  fresh |-> {s \in Slugs : removedBundled[s]}]]
    /\ UNCHANGED <<notRegistry, sql, tomb, kv, removedBundled>>

\* _persist_records, lines 194-211: every given record is written over its row
\* (a missing row is added) and the slug's ToolkitRemoval row is deleted
PersistedSql(records) ==
    [s \in Slugs |-> IF records[s] # NoRow THEN records[s] ELSE sql[s]]

PersistedTomb(records) == tomb \ {s \in Slugs : records[s] # NoRow}

\* the single record of _ensure_persisted as a mapping
Only(slug, rec) == [s \in Slugs |-> IF s = slug THEN rec ELSE NoRow]

\* activate_toolkit, line 205: it starts with get_toolkit(slug)
Activate(r) == [r EXCEPT !.pc = "g_hget", !.ret = "done"]

\* where the caller of get_toolkit goes with the record it got back
AfterGet(r, rec) ==
    CASE r.ret = "s_existing" ->
           \* seeder, lines 46-58
           LET enabled == IF rec = NoRow THEN TRUE ELSE rec.enabled
               next == [r EXCEPT !.rec = rec, !.origin = "bundled",
                                 !.pay = InstallPayload(enabled, FALSE)]
           IN IF rec # NoRow /\ rec.origin # "bundled"
              THEN [next EXCEPT !.pc = "so_txn"]
              ELSE [next EXCEPT !.pc = "i_clear"]
      [] r.ret = "i_existing" ->
           \* install_toolkit_from_directory, lines 211-234
           IF rec # NoRow THEN [r EXCEPT !.pc = "u_txn", !.rec = rec]
           ELSE [r EXCEPT !.pc = "c_txn", !.rec = rec]
      [] r.ret = "i_refetch" ->
           \* install_toolkit_from_directory, lines 230-241
           IF rec # NoRow /\ rec.enabled THEN Activate(r) ELSE RIdle
      [] OTHER -> RIdle

\* toolkits_get / any caller of get_toolkit(slug)
GetToolkit(p) ==
    \E s \in Slugs : Begin(p, "get", s, "g_hget", "done", NoPayload, "none")

\* get_toolkit, lines 235-239: redis.hget; a hit goes on to _ensure_persisted
GetHget(p) ==
    /\ rp[p].pc = "g_hget"
    /\ LET raw == kv[rp[p].slug]
       IN rp' = [rp EXCEPT ![p] = IF raw # NoRow
                                  THEN [@ EXCEPT !.pc = "g_persist", !.rec = raw]
                                  ELSE [@ EXCEPT !.pc = "g_sql"]]
    /\ UNCHANGED <<notRegistry, sql, tomb, kv, removedBundled>>

\* get_toolkit, line 238: _ensure_persisted(record) writes the cached record
\* to SQL and clears the slug's removal
GetPersist(p) ==
    /\ rp[p].pc = "g_persist"
    /\ sql' = PersistedSql(Only(rp[p].slug, rp[p].rec))
    /\ tomb' = PersistedTomb(Only(rp[p].slug, rp[p].rec))
    /\ rp' = [rp EXCEPT ![p] = AfterGet(@, rp[p].rec)]
    /\ UNCHANGED <<notRegistry, kv, removedBundled>>

\* get_toolkit, lines 240-244: on a miss the row is read from SQL
GetSql(p) ==
    /\ rp[p].pc = "g_sql"
    /\ LET model == sql[rp[p].slug]
       IN rp' = [rp EXCEPT ![p] = IF model = NoRow
                                  THEN AfterGet(@, NoRow)
                                  ELSE [@ EXCEPT !.pc = "g_cache", !.rec = model]]
    /\ UNCHANGED <<notRegistry, sql, tomb, kv, removedBundled>>

\* get_toolkit, line 245: _cache_toolkit(record)
GetCache(p) ==
    /\ rp[p].pc = "g_cache"
    /\ kv' = [kv EXCEPT ![rp[p].slug] = rp[p].rec]
    /\ rp' = [rp EXCEPT ![p] = AfterGet(@, rp[p].rec)]
    /\ UNCHANGED <<notRegistry, sql, tomb, removedBundled>>

\* toolkits_list / any caller of list_toolkits()
ListToolkits(p) == Begin(p, "list", 1, "l_hvals", "done", NoPayload, "none")

\* list_toolkits, lines 220-222: redis.hvals; a non-empty hash is the answer
ListHvals(p) ==
    /\ rp[p].pc = "l_hvals"
    /\ rp' = [rp EXCEPT ![p] = IF kv # NoRecs
                               THEN [@ EXCEPT !.pc = "l_persist", !.recs = kv]
                               ELSE [@ EXCEPT !.pc = "l_sql"]]
    /\ UNCHANGED <<notRegistry, sql, tomb, kv, removedBundled>>

\* list_toolkits, line 223: _persist_records(toolkits)
ListPersist(p) ==
    /\ rp[p].pc = "l_persist"
    /\ sql' = PersistedSql(rp[p].recs)
    /\ tomb' = PersistedTomb(rp[p].recs)
    /\ rp' = [rp EXCEPT ![p] = RIdle]
    /\ UNCHANGED <<notRegistry, kv, removedBundled>>

\* list_toolkits, lines 225-227: an empty hash is refilled from SQL
ListSql(p) ==
    /\ rp[p].pc = "l_sql"
    /\ rp' = [rp EXCEPT ![p] = [@ EXCEPT !.pc = "l_cache", !.recs = sql]]
    /\ UNCHANGED <<notRegistry, sql, tomb, kv, removedBundled>>

\* _cache_toolkits, lines 138-144: hset of the mapping, or delete of the key
CachedAll(records) ==
    IF records # NoRecs
    THEN [s \in Slugs |-> IF records[s] # NoRow THEN records[s] ELSE kv[s]]
    ELSE NoRecs

\* list_toolkits, line 228: _cache_toolkits(toolkits)
ListCache(p) ==
    /\ rp[p].pc = "l_cache"
    /\ kv' = CachedAll(rp[p].recs)
    /\ rp' = [rp EXCEPT ![p] = RIdle]
    /\ UNCHANGED <<notRegistry, sql, tomb, removedBundled>>

\* toolkits_create: create_toolkit(payload) with the default origin
CreateToolkit(p) ==
    \E s \in Slugs, pay \in CreatePayloads :
        Begin(p, "create", s, "c_txn", "done", pay, "custom")

\* create_toolkit, lines 258-286: one session; an existing row raises
\* ValueError, otherwise the row is added and the slug's removal cleared
CreateTxn(p) ==
    /\ rp[p].pc = "c_txn"
    /\ LET s == rp[p].slug
           row == Row(rp[p].origin, rp[p].pay.enabled)
       IN IF sql[s] # NoRow
          THEN /\ rp' = [rp EXCEPT ![p] = RIdle]
               /\ UNCHANGED <<sql, tomb, removedBundled>>
          ELSE /\ sql' = [sql EXCEPT ![s] = row]
               /\ tomb' = tomb \ {s}
               /\ removedBundled' = [removedBundled EXCEPT ![s] = FALSE]
               /\ rp' = [rp EXCEPT ![p] = [@ EXCEPT !.pc = "c_cache", !.rec = row]]
    /\ UNCHANGED <<notRegistry, kv>>

\* what follows the upsert: install_toolkit_from_directory activates an
\* enabled toolkit (lines 236-238); create_toolkit / update_toolkit return
AfterUpsert(r) ==
    IF r.op \in {"install", "seed"} /\ r.rec.enabled THEN Activate(r) ELSE RIdle

\* create_toolkit, line 287: _cache_toolkit(record)
CreateCache(p) ==
    /\ rp[p].pc = "c_cache"
    /\ kv' = [kv EXCEPT ![rp[p].slug] = rp[p].rec]
    /\ rp' = [rp EXCEPT ![p] = AfterUpsert(@)]
    /\ UNCHANGED <<notRegistry, sql, tomb, removedBundled>>

\* toolkits_update: update_toolkit(slug, payload)
UpdateToolkit(p) ==
    \E s \in Slugs, pay \in UpdatePayloads :
        Begin(p, "update", s, "u_txn", "done", pay, "none")

\* update_toolkit, lines 293-306: one session; a missing row returns None
\* (the installer then fetches the record again, install_utils lines 231-232)
UpdateTxn(p) ==
    /\ rp[p].pc = "u_txn"
    /\ LET s == rp[p].slug
           row == ApplyUpdate(sql[s], rp[p].pay)
           installing == rp[p].op \in {"install", "seed"}
       IN IF sql[s] = NoRow
          THEN /\ rp' = [rp EXCEPT ![p] =
                            IF installing
                            THEN [@ EXCEPT !.pc = "g_hget", !.ret = "i_refetch"]
                            ELSE RIdle]
               /\ UNCHANGED <<sql, removedBundled>>
          ELSE /\ sql' = [sql EXCEPT ![s] = row]
               /\ removedBundled' = IF installing
                                    THEN [removedBundled EXCEPT ![s] = FALSE]
                                    ELSE removedBundled
               /\ rp' = [rp EXCEPT ![p] = [@ EXCEPT !.pc = "u_cache", !.rec = row]]
    /\ UNCHANGED <<notRegistry, tomb, kv>>

\* update_toolkit, line 307: _cache_toolkit(record)
UpdateCache(p) ==
    /\ rp[p].pc = "u_cache"
    /\ kv' = [kv EXCEPT ![rp[p].slug] = rp[p].rec]
    /\ rp' = [rp EXCEPT ![p] = AfterUpsert(@)]
    /\ UNCHANGED <<notRegistry, sql, tomb, removedBundled>>

\* toolkits_delete: delete_toolkit(slug)
DeleteToolkit(p) ==
    \E s \in Slugs : Begin(p, "delete", s, "d_txn", "done", NoPayload, "none")

\* delete_toolkit that never records a removal
TombNeverRecorded(slug, wasBundled) == tomb \ {slug}

\* delete_toolkit, lines 318-323: a bundled record leaves a ToolkitRemoval
\* row, any other record clears it
TombAfterDelete(slug, wasBundled) ==
    IF wasBundled THEN tomb \cup {slug} ELSE tomb \ {slug}

\* a call that started before this deletion is not a later call
NotFreshFor(p, slug) ==
    [q \in Callers |-> IF q = p THEN rp[q] ELSE [rp[q] EXCEPT !.fresh = @ \ {slug}]]

\* delete_toolkit, lines 312-324: one session; a missing row returns False,
\* a builtin row raises ValueError
DeleteTxn(p) ==
    /\ rp[p].pc = "d_txn"
    /\ LET s == rp[p].slug
           model == sql[s]
       IN IF model = NoRow \/ model.origin = "builtin"
          THEN /\ rp' = [rp EXCEPT ![p] = RIdle]
               /\ UNCHANGED <<sql, tomb, removedBundled>>
          ELSE /\ sql' = [sql EXCEPT ![s] = NoRow]
               /\ tomb' = TombAfterDelete(s, model.origin = "bundled")
               /\ removedBundled' = [removedBundled EXCEPT ![s] = (model.origin = "bundled")]
               /\ rp' = [NotFreshFor(p, s) EXCEPT ![p] = [@ EXCEPT !.pc = "d_evict"]]
    /\ UNCHANGED <<notRegistry, kv>>

\* delete_toolkit, line 325: _evict_toolkit(slug)
DeleteEvict(p) ==
    /\ rp[p].pc = "d_evict"
    /\ kv' = [kv EXCEPT ![rp[p].slug] = NoRow]
    /\ rp' = [rp EXCEPT ![p] = RIdle]
    /\ UNCHANGED <<notRegistry, sql, tomb, removedBundled>>

\* toolkits_install: install_toolkit_from_directory(origin="uploaded",
\* enable_by_default=False, preserve_enabled=True); toolkits_install_from_catalog
\* makes the same call with origin "community"
InstallToolkit(p) ==
    \E s \in Slugs :
        Begin(p, "install", s, "i_clear", "done", InstallPayload(FALSE, TRUE), "uploaded")

\* install_toolkit_from_directory, lines 192 and 211: clear_toolkit_removal,
\* then get_toolkit(slug) decides between update and create
InstallClearRemoval(p) ==
    /\ rp[p].pc = "i_clear"
    /\ tomb' = tomb \ {rp[p].slug}
    /\ rp' = [rp EXCEPT ![p] = [@ EXCEPT !.pc = "g_hget", !.ret = "i_existing"]]
    /\ UNCHANGED <<notRegistry, sql, kv, removedBundled>>

\* ensure_bundled_toolkits_installed, run at every API and worker start
SeederRun(p) ==
    \E s \in BundledSlugs :
        Begin(p, "seed", s, "s_removed", "done", NoPayload, "bundled")

\* seeder, lines 45-47: a removed slug is skipped, else get_toolkit(slug)
SeederIsRemoved(p) ==
    /\ rp[p].pc = "s_removed"
    /\ rp' = [rp EXCEPT ![p] = IF rp[p].slug \in tomb
                               THEN RIdle
                               ELSE [@ EXCEPT !.pc = "g_hget", !.ret = "s_existing"]]
    /\ UNCHANGED <<notRegistry, sql, tomb, kv, removedBundled>>

\* set_toolkit_origin, lines 330-339: one session; a missing row returns None
SetOriginTxn(p) ==
    /\ rp[p].pc = "so_txn"
    /\ LET s == rp[p].slug
       IN IF sql[s] = NoRow
          THEN /\ rp' = [rp EXCEPT ![p] = [@ EXCEPT !.pc = "i_clear"]]
               /\ UNCHANGED sql
          ELSE /\ sql' = [sql EXCEPT ![s] = [@ EXCEPT !.origin = "bundled"]]
               /\ rp' = [rp EXCEPT ![p] = [@ EXCEPT !.pc = "so_cache", !.rec = sql'[s]]]
    /\ UNCHANGED <<notRegistry, tomb, kv, removedBundled>>

\* set_toolkit_origin, line 340: _cache_toolkit(record); the seeder goes on
\* to install_toolkit_from_directory
SetOriginCache(p) ==
    /\ rp[p].pc = "so_cache"
    /\ kv' = [kv EXCEPT ![rp[p].slug] = rp[p].rec]
    /\ rp' = [rp EXCEPT ![p] = [@ EXCEPT !.pc = "i_clear"]]
    /\ UNCHANGED <<notRegistry, sql, tomb, removedBundled>>

InitRegistry ==
    /\ sql = NoRecs
    /\ tomb = {}
    /\ kv = NoRecs
    /\ rp = [p \in Callers |-> RIdle]
    /\ removedBundled = [s \in Slugs |-> FALSE]

Registry(p) ==
    \/ GetToolkit(p)
    \/ GetHget(p)
    \/ GetPersist(p)
    \/ GetSql(p)
    \/ GetCache(p)
    \/ ListToolkits(p)
    \/ ListHvals(p)
    \/ ListPersist(p)
    \/ ListSql(p)
    \/ ListCache(p)
    \/ CreateToolkit(p)
    \/ CreateTxn(p)
    \/ CreateCache(p)
    \/ UpdateToolkit(p)
    \/ UpdateTxn(p)
    \/ UpdateCache(p)
    \/ DeleteToolkit(p)
    \/ DeleteTxn(p)
    \/ DeleteEvict(p)
    \/ InstallToolkit(p)
    \/ InstallClearRemoval(p)
    \/ SeederRun(p)
    \/ SeederIsRemoved(p)
    \/ SetOriginTxn(p)
    \/ SetOriginCache(p)

\* callers overlap freely
NextRegistry == \E p \in Callers : Registry(p)

\* no caller is in the middle of a call
Quiescent == \A p \in Callers : rp[p].pc = "idle"

\* calls do not overlap: a caller moves only while every other one is idle
NextRegistrySeq ==
    \E p \in Callers : (\A q \in Callers \ {p} : rp[q].pc = "idle") /\ Registry(p)

(***************************************************************************)
(* Refresh-token sessions (backend/app/services/auth.py,                   *)
(* security/tokens.py, routes/auth.py).  A request runs in one database    *)
(* transaction that the route commits: one atomic step.  RefreshTtl is     *)
(* settings.auth_refresh_token_ttl_seconds on the model's time scale.      *)
(***************************************************************************)
Jtis == 1..MaxTokens

\* _encode / create_token_bundle: the claims of a refresh token issued now
\* for session sid; jti makes every token distinct
RefreshClaims(jti, sid, now) ==
    [jti |-> jti, sid |-> sid, exp |-> now + RefreshTtl,
     typ |-> "refresh", token_use |-> "refresh"]

\* hash_token: SHA-256 of the token, distinct tokens have distinct digests
hash_token(token) == <<"sha256", token>>

\* is_token_expired: expires_at <= _now()
is_token_expired(expires_at) == expires_at <= clock

\* SessionService.get_by_token_hash: the index of the record, 0 for None
get_by_token_hash(token_hash) ==
    IF \E i \in 1..Len(sessions) : sessions[i].hash = token_hash
    THEN CHOOSE i \in 1..Len(sessions) : sessions[i].hash = token_hash
    ELSE 0

\* a refresh that accepts a revoked session
AnySessionUsable(i) == i # 0

\* refresh_tokens, line 158: `not record or record.revoked_at` rejects
SessionUsable(i) == i # 0 /\ ~sessions[i].revoked

\* a refresh_tokens that goes from decoding straight to the session lookup
RefreshOutcomeUnmarked(token) ==
    IF token.exp <= clock THEN "Token expired"
    ELSE LET i == get_by_token_hash(hash_token(token))
         IN IF ~SessionUsable(i) THEN "Refresh token not recognized"
            ELSE IF is_token_expired(sessions[i].expires_at) THEN "Refresh token expired"
            ELSE IF ~userActive THEN "User inactive"
            ELSE "ok"

\* refresh_tokens, lines 151-164: the checks in order; "ok" when all pass
RefreshOutcome(token) ==
    IF token.exp <= clock THEN "Token expired"
    ELSE IF token.token_use # "refresh" THEN "Refresh token invalid"
    ELSE IF token.typ # "refresh" THEN "Refresh token invalid"
    ELSE LET i == get_by_token_hash(hash_token(token))
         IN IF ~SessionUsable(i) THEN "Refresh token not recognized"
            ELSE IF is_token_expired(sessions[i].expires_at) THEN "Refresh token expired"
            ELSE IF ~userActive THEN "User inactive"
            ELSE "ok"

\* a rotation that extends the session but keeps the stored hash
RotateKeepsHash(record, token) == [record EXCEPT !.expires_at = token.exp]

\* refresh_tokens, lines 173-174: the record takes the new token's hash and expiry
Rotate(record, token) ==
    [record EXCEPT !.hash = hash_token(token), !.expires_at = token.exp]

NoResp == [seq |-> 0, op |-> "none", token |-> 0, status |-> 0, detail |-> "none"]

Answer(op, jti, status, detail) ==
    [seq |-> 1 - authResp.seq, op |-> op, token |-> jti, status |-> status, detail |-> detail]

\* issue_tokens / _store_refresh_token, lines 93-142: a login creates the
\* session record for the token it returns
Login ==
    /\ userActive
    /\ Len(issuedTokens) < MaxTokens
    /\ LET jti == Len(issuedTokens) + 1
           token == RefreshClaims(jti, Len(sessions) + 1, clock)
           found == get_by_token_hash(hash_token(token))
       IN /\ issuedTokens' = Append(issuedTokens, token)
          /\ sessions' = IF found # 0
                         THEN [sessions EXCEPT ![found] =
                                  [@ EXCEPT !.expires_at = token.exp, !.revoked = FALSE]]
                         ELSE Append(sessions, [hash |-> hash_token(token),
                                                revoked |-> FALSE,
                                                expires_at |-> token.exp])
    /\ UNCHANGED <<clock, jobVars, ldVars, rtVars, procVars, regVars, thrVars, schVars, userActive, authResp>>

\* POST /auth/refresh: refresh_tokens and the route's commit
Refresh ==
    \E jti \in 1..Len(issuedTokens) :
        LET token == issuedTokens[jti]
            outcome == RefreshOutcome(token)
            i == get_by_token_hash(hash_token(token))
            new == RefreshClaims(Len(issuedTokens) + 1, token.sid, clock)
        IN IF outcome = "ok"
           THEN /\ Len(issuedTokens) < MaxTokens
                /\ issuedTokens' = Append(issuedTokens, new)
                /\ sessions' = [sessions EXCEPT ![i] = Rotate(@, new)]
                /\ authResp' = Answer("refresh", jti, 200, "ok")
                /\ UNCHANGED <<clock, jobVars, ldVars, rtVars, procVars, regVars, thrVars, schVars, userActive>>
           ELSE /\ authResp' = Answer("refresh", jti, 401, outcome)
                /\ UNCHANGED <<clock, jobVars, ldVars, rtVars, procVars, regVars, thrVars, schVars, userActive,
                               issuedTokens, sessions>>

\* tokens that decode but are not refresh tokens: the access token of a bundle
\* (_encode with token_type "access" and no token_use, tokens.py lines 101-105),
\* claims without token_use, and claims with typ "access"
PresentedKinds == {"access", "no_token_use", "wrong_typ"}

PresentedClaims(kind, base) ==
    [base EXCEPT !.typ = IF kind = "no_token_use" THEN "refresh" ELSE "access",
                 !.token_use = IF kind = "wrong_typ" THEN "refresh" ELSE "none"]

\* POST /auth/refresh with such a token in place of the refresh token
RefreshPresented ==
    \E jti \in 1..Len(issuedTokens), kind \in PresentedKinds :
        LET token == PresentedClaims(kind, issuedTokens[jti])
            outcome == RefreshOutcome(token)
            i == get_by_token_hash(hash_token(token))
            new == RefreshClaims(Len(issuedTokens) + 1, token.sid, clock)
        IN IF outcome = "ok"
           THEN /\ Len(issuedTokens) < MaxTokens
                /\ issuedTokens' = Append(issuedTokens, new)
                /\ sessions' = [sessions EXCEPT ![i] = Rotate(@, new)]
                /\ authResp' = Answer(kind, jti, 200, "ok")
                /\ UNCHANGED <<clock, jobVars, ldVars, rtVars, procVars, regVars, thrVars, schVars, userActive>>
           ELSE /\ authResp' = Answer(kind, jti, 401, outcome)
                /\ UNCHANGED <<clock, jobVars, ldVars, rtVars, procVars, regVars, thrVars, schVars, userActive,
                               issuedTokens, sessions>>

\* POST /auth/logout: revoke_refresh_token, lines 185-189
Logout ==
    \E jti \in 1..Len(issuedTokens) :
        LET i == get_by_token_hash(hash_token(issuedTokens[jti]))
        IN /\ sessions' = IF i # 0
                          THEN [sessions EXCEPT ![i] = [@ EXCEPT !.revoked = TRUE]]
                          ELSE sessions
           /\ authResp' = Answer("logout", jti, 200, "Logged out")
           /\ UNCHANGED <<clock, jobVars, ldVars, rtVars, procVars, regVars, thrVars, schVars, userActive, issuedTokens>>

\* admin update_user, routes/admin_users.py lines 116-117: is_active changes
SetUserActive ==
    /\ userActive' = ~userActive
    /\ UNCHANGED <<clock, jobVars, ldVars, rtVars, procVars, regVars, thrVars, schVars, issuedTokens, sessions, authResp>>

InitAuth ==
    /\ issuedTokens = <<>>
    /\ sessions = <<>>
    /\ userActive = TRUE
    /\ authResp = NoResp

NextAuth ==
    \/ Login
    \/ Refresh
    \/ RefreshPresented
    \/ Logout
    \/ SetUserActive
    \/ Tick

(***************************************************************************)
(* POST /auth/refresh served for several requests at once.  Each request   *)
(* has its own SQL session; its SELECT sees what is committed, and its     *)
(* UPDATE, audit row and commit are one step.                              *)
(***************************************************************************)
Refreshers == 1..MaxRefreshers

RfIdle == [pc |-> "idle", token |-> 0, record |-> 0, status |-> 0]

rfOthers == <<clock, jobVars, regVars, thrVars, schVars, ldVars, rtVars, stVars, obsVars, edVars, imVars>>

\* refresh_tokens, lines 151-161: decode, the claim checks and the session lookup
SessionOutcome(token) ==
    IF token.exp <= clock THEN "Token expired"
    ELSE IF token.token_use # "refresh" THEN "Refresh token invalid"
    ELSE IF token.typ # "refresh" THEN "Refresh token invalid"
    ELSE LET i == get_by_token_hash(hash_token(token))
         IN IF ~SessionUsable(i) THEN "Refresh token not recognized"
            ELSE IF is_token_expired(sessions[i].expires_at) THEN "Refresh token expired"
            ELSE "ok"

RefreshLookup(p) ==
    /\ rf[p].pc \in {"idle", "answered"}
    /\ \E jti \in 1..Len(issuedTokens) :
          LET token == issuedTokens[jti]
          IN rf' = [rf EXCEPT ![p] =
                       IF SessionOutcome(token) = "ok"
                       THEN [pc |-> "user", token |-> jti,
                             record |-> get_by_token_hash(hash_token(token)), status |-> 0]
                       ELSE [pc |-> "answered", token |-> jti, record |-> 0, status |-> 401]]
    /\ UNCHANGED <<rfOthers, authVars, refreshed>>

\* refresh_tokens, lines 162-164: the user is gone or inactive
RefreshUserInactive(p) ==
    /\ rf[p].pc = "user"
    /\ ~userActive
    /\ rf' = [rf EXCEPT ![p] = [@ EXCEPT !.pc = "answered", !.status = 401]]
    /\ UNCHANGED <<rfOthers, authVars, refreshed>>

\* refresh_tokens, lines 165-183, and the route's commit and answer, lines
\* 268-278: the record loaded by the lookup takes the new token's hash
RefreshRotate(p) ==
    /\ rf[p].pc = "user"
    /\ userActive
    /\ Len(issuedTokens) < MaxTokens
    /\ LET new == RefreshClaims(Len(issuedTokens) + 1, issuedTokens[rf[p].token].sid, clock)
       IN /\ issuedTokens' = Append(issuedTokens, new)
          /\ sessions' = [sessions EXCEPT ![rf[p].record] = Rotate(@, new)]
    /\ refreshed' = [refreshed EXCEPT ![rf[p].token] = @ + 1]
    /\ rf' = [rf EXCEPT ![p] = [@ EXCEPT !.pc = "answered", !.status = 200]]
    /\ UNCHANGED <<rfOthers, userActive, authResp>>

InitRefreshers ==
    /\ rf = [p \in Refreshers |-> RfIdle]
    /\ refreshed = [jti \in 1..MaxTokens |-> 0]

NextRefreshers ==
    \/ Login
    \/ Logout
    \/ SetUserActive
    \/ Tick
    \/ \E p \in Refreshers : RefreshLookup(p)
    \/ \E p \in Refreshers : RefreshUserInactive(p)
    \/ \E p \in Refreshers : RefreshRotate(p)

(***************************************************************************)
(* Local login throttle (backend/app/security/providers/local.py), for one *)
(* throttle identifier.  Redis keys carry their expiry time; a key is      *)
(* there while the clock has not reached it.  A login request is a         *)
(* sequence of Redis commands; it is served within one clock tick, and     *)
(* requests for the identifier are served one after the other.             *)
(***************************************************************************)
\* the failure key does not exist
NoKey == [count |-> 0, expires |-> -1]

\* the failure key exists: it holds a counter and has not expired
FailLive == failures.count > 0 /\ (failures.expires = -1 \/ clock < failures.expires)

\* the lock key exists: redis.get(lock_key) is not None
LockLive == lock > 0 /\ clock < lock

\* _remaining_lock_seconds, lines 30-37: 0 without a lock key, else its TTL
\* (the lockout length when the key has no TTL)
RemainingLockSeconds ==
    IF ~LockLive THEN 0
    ELSE LET ttl == lock - clock
         IN IF ttl < 0 THEN lockout_seconds ELSE ttl

\* a threshold that locks on the first failure
TriggeredAtOnce(attempts) == attempts >= 1

\* a threshold that locks one failure late
TriggeredAfterMax(attempts) == attempts > max_failed_attempts

\* _register_failure, line 67: attempts >= self.config.max_failed_attempts
LockTriggered(attempts) == attempts >= max_failed_attempts

\* flushed: the auth.login.throttled rows the request has added to its SQL
\* session (AuditService.log: session.add and flush, no commit)
LgIdle == [pc |-> "idle", cred |-> "none", attempts |-> 0, denied |-> 0, flushed |-> 0, failed |-> 0]

NoAnswer == [seq |-> 0, status |-> 0, retry |-> 0, cred |-> "none", at |-> "none"]

\* _complete_provider_login, routes/auth.py lines 68-86: the session is
\* committed after a successful login and rolled back on any exception
Committed(status) == IF status = 200 THEN auditLog + lg.flushed ELSE auditLog

\* the same for the auth.login.failure rows of the request
CommittedFailures(status) == IF status = 200 THEN failureLog + lg.failed ELSE failureLog

\* the HTTP answer of complete(): status, Retry-After (0 when absent), and
\* where in complete() it was raised
Respond(status, retry, at) ==
    /\ auditLog' = Committed(status)
    /\ failureLog' = CommittedFailures(status)
    /\ thrResp' = [seq |-> 1 - thrResp.seq, status |-> status, retry |-> retry,
                   cred |-> lg.cred, at |-> at]
    /\ answers' = Append(answers, [cred |-> lg.cred, status |-> status,
                                    retry |-> retry, time |-> clock])
    /\ lg' = LgIdle

\* complete, lines 97-108: a login request with a right or a wrong password
LoginBegin ==
    /\ lg.pc = "idle"
    /\ Len(answers) < MaxLogins
    /\ \E cred \in {"right", "wrong"} :
         lg' = [LgIdle EXCEPT !.pc = "check", !.cred = cred]
    /\ UNCHANGED <<clock, jobVars, ldVars, rtVars, procVars, regVars, authVars, schVars, failures, lock, thrResp, answers, auditLog, failureLog>>

\* complete, lines 110-116: a live lock answers 429 with its remaining seconds
LoginCheckLock ==
    /\ lg.pc = "check"
    /\ LET remaining_lock == RemainingLockSeconds
       IN IF remaining_lock > 0
          THEN Respond(429, remaining_lock, "lock_check")
          ELSE /\ lg' = [lg EXCEPT !.pc = "verify"]
               /\ UNCHANGED <<thrResp, answers, auditLog, failureLog>>
    /\ UNCHANGED <<clock, jobVars, ldVars, rtVars, procVars, regVars, authVars, schVars, failures, lock>>

\* complete, lines 118-154: wrong password or disabled account registers a
\* failure (401 / 403 when it does not lock), otherwise the login succeeds;
\* _register_failure, lines 49-56, first logs auth.login.failure
LoginVerify ==
    /\ lg.pc = "verify"
    /\ lg' = [lg EXCEPT !.pc = IF lg.cred = "wrong" \/ ~userActive THEN "incr" ELSE "clear",
                        !.denied = IF lg.cred = "wrong" THEN 401 ELSE 403,
                        !.failed = IF lg.cred = "wrong" \/ ~userActive THEN 1 ELSE 0]
    /\ UNCHANGED <<clock, jobVars, ldVars, rtVars, procVars, regVars, authVars, schVars, failures, lock, thrResp, answers, auditLog, failureLog>>

\* _register_failure, line 63: redis.incr(failure_key)
RegisterFailureIncr ==
    /\ lg.pc = "incr"
    /\ failures' = IF FailLive THEN [failures EXCEPT !.count = @ + 1]
                   ELSE [count |-> 1, expires |-> -1]
    /\ lg' = [lg EXCEPT !.pc = "expire", !.attempts = failures'.count]
    /\ UNCHANGED <<clock, jobVars, ldVars, rtVars, procVars, regVars, authVars, schVars, lock, thrResp, answers, auditLog, failureLog>>

\* _register_failure, lines 64-67 and 85: a counter without TTL gets the
\* failure window; below the threshold the failure is answered 401 / 403
RegisterFailureExpire ==
    /\ lg.pc = "expire"
    /\ failures' = IF FailLive /\ failures.expires = -1
                   THEN [failures EXCEPT !.expires = clock + failure_window_seconds]
                   ELSE failures
    /\ IF LockTriggered(lg.attempts)
       THEN /\ lg' = [lg EXCEPT !.pc = "setex"]
            /\ UNCHANGED <<thrResp, answers, auditLog, failureLog>>
       ELSE Respond(lg.denied, 0, "failure")
    /\ UNCHANGED <<clock, jobVars, ldVars, rtVars, procVars, regVars, authVars, schVars, lock>>

\* _register_failure, lines 68-69: redis.setex(lock_key, lockout_seconds, "1")
RegisterFailureLock ==
    /\ lg.pc = "setex"
    /\ lock' = clock + lockout_seconds
    /\ lg' = [lg EXCEPT !.pc = "delete"]
    /\ UNCHANGED <<clock, jobVars, ldVars, rtVars, procVars, regVars, authVars, schVars, failures, thrResp, answers, auditLog, failureLog>>

\* _register_failure, line 70: redis.delete(failure_key)
RegisterFailureDelete ==
    /\ lg.pc = "delete"
    /\ failures' = NoKey
    /\ lg' = [lg EXCEPT !.pc = "audit"]
    /\ UNCHANGED <<clock, jobVars, ldVars, rtVars, procVars, regVars, authVars, schVars, lock, thrResp, answers, auditLog, failureLog>>

\* _register_failure, lines 71-83: audit_service.log of auth.login.throttled
RegisterFailureAudit ==
    /\ lg.pc = "audit"
    /\ lg' = [lg EXCEPT !.pc = "remaining", !.flushed = @ + 1]
    /\ UNCHANGED <<clock, jobVars, ldVars, rtVars, procVars, regVars, authVars, schVars, failures, lock, thrResp, answers, auditLog, failureLog>>

\* _register_failure, line 84, and complete, lines 130-136: the remaining
\* lock seconds decide between 429 with Retry-After and 401 / 403
RegisterFailureRemaining ==
    /\ lg.pc = "remaining"
    /\ LET remaining == RemainingLockSeconds
       IN IF remaining > 0
          THEN Respond(429, remaining, "failure")
          ELSE Respond(lg.denied, 0, "failure")
    /\ UNCHANGED <<clock, jobVars, ldVars, rtVars, procVars, regVars, authVars, schVars, failures, lock>>

\* a successful login that leaves the throttle keys as they are
LoginSucceedKeepingKeys ==
    /\ lg.pc = "clear"
    /\ Respond(200, 0, "success")
    /\ UNCHANGED <<clock, jobVars, ldVars, rtVars, procVars, regVars, authVars, schVars, failures, lock>>

\* complete, lines 156-157, and _clear_failures, lines 87-91: a successful
\* login deletes the failure key and the lock key
LoginSucceed ==
    /\ lg.pc = "clear"
    /\ failures' = NoKey
    /\ lock' = 0
    /\ Respond(200, 0, "success")
    /\ UNCHANGED <<clock, jobVars, ldVars, rtVars, procVars, regVars, authVars, schVars>>

\* time passes between login requests
TickBetweenLogins == lg.pc = "idle" /\ Tick

\* an administrator disables or enables the account between login requests
SetUserActiveBetweenLogins == lg.pc = "idle" /\ SetUserActive

InitThrottle ==
    /\ failures = NoKey
    /\ lock = 0
    /\ lg = LgIdle
    /\ thrResp = NoAnswer
    /\ answers = <<>>
    /\ auditLog = 0
    /\ failureLog = 0

NextThrottle ==
    \/ LoginBegin
    \/ LoginCheckLock
    \/ LoginVerify
    \/ RegisterFailureIncr
    \/ RegisterFailureExpire
    \/ RegisterFailureLock
    \/ RegisterFailureDelete
    \/ RegisterFailureAudit
    \/ RegisterFailureRemaining
    \/ LoginSucceed
    \/ TickBetweenLogins
    \/ SetUserActiveBetweenLogins

(***************************************************************************)
(* Latency-sleuth scheduled dispatch (toolkits/latency_sleuth/worker/      *)
(* tasks.py, backend/storage.py).  Every worker process runs a scheduler   *)
(* thread; each pass of _dispatch_due_probes is a sequence of Redis        *)
(* commands, and the passes of different instances overlap freely.         *)
(***************************************************************************)
TemplateIds == 1..MaxTemplates

Scheds == 1..MaxSchedulers

\* interval_seconds of the stored template t
IntervalOf(t) == 60 * t

\* create_template, lines 57-64: created_at = updated_at = next_run_at = now
NewTemplate(interval, now) ==
    [interval |-> interval, next_run_at |-> now, created_at |-> now, updated_at |-> now]

\* template.next_run_at or template.created_at (next_run_at None is -1)
CurrentNext(template) ==
    IF template.next_run_at # -1 THEN template.next_run_at ELSE template.created_at

\* the hash has no entry for the template id
NoTemplate == [interval |-> 0]

\* list_due_templates, lines 149-158
DueTemplates(now) ==
    {t \in TemplateIds : templates[t] # NoTemplate /\ CurrentNext(templates[t]) <= now}

\* a reservation that counts the interval from the old next_run_at
ReservedFromDue(template, timestamp) ==
    [template EXCEPT !.next_run_at = CurrentNext(template) + template.interval,
                     !.updated_at = timestamp]

\* a reservation that does not look at next_run_at
AlwaysDue(template, timestamp) == TRUE

\* reserve_template_for_run, lines 133-136: a template whose next run lies
\* after the pass's timestamp is not reserved
StillDue(template, timestamp) == ~(CurrentNext(template) > timestamp)

\* reserve_template_for_run, lines 138-139: _compute_next_run from the timestamp
Reserved(template, timestamp) ==
    [template EXCEPT !.next_run_at = timestamp + template.interval,
                     !.updated_at = timestamp]

\* list_jobs(limit=200, toolkits=["latency-sleuth"]): the newest JobScanLimit
\* jobs of the toolkit (sorted by created_at, newest first, then cut)
ListedJobs ==
    {j \in 1..Len(sjobs) : j > Len(sjobs) - JobScanLimit}

\* a check that takes any listed job of the template for an active one
HasAnyJob(t) == \E j \in ListedJobs : sjobs[j].template = t

\* _has_active_job, lines 102-111: a listed job of the template that is not
\* terminal
HasActiveJob(t) ==
    \E j \in ListedJobs :
        sjobs[j].template = t /\ sjobs[j].status \notin TERMINAL_STATUSES

\* create_job for a scheduled run of template t
NewProbeJob(id, t) ==
    [id |-> id, template |-> t, status |-> "queued", logs |-> <<>>,
     error |-> "null", celery_task_id |-> NoTask, by |-> "scheduler"]

\* result.id of the task sent for job j
TaskOf(j) == CHOOSE n \in 1..Len(sent) : sent[n] = j

\* save_job on the JOBS_KEY entries of scheduled runs
SaveProbeJob(job) == sjobs' = [sjobs EXCEPT ![job.id] = job]

SchIdle == [pc |-> "idle", now |-> 0, due |-> {}, tpl |-> 0, watched |-> <<>>, job |-> NoJob]

\* the loop of _dispatch_due_probes moves to the next due template
Continue(r) ==
    IF r.due = {} THEN SchIdle
    ELSE LET t == CHOOSE x \in r.due : \A y \in r.due : x <= y
         IN [r EXCEPT !.pc = "active", !.tpl = t, !.due = @ \ {t},
                      !.watched = <<>>, !.job = NoJob]

\* passes that may still create a job
ActivePasses == {s \in Scheds : sch[s].pc # "idle"}

\* _dispatch_due_probes, lines 115-116: the pass takes its timestamp and
\* lists the due templates
DispatchStart(s) ==
    /\ sch[s].pc = "idle"
    /\ Len(sjobs) + MaxTemplates * (Cardinality(ActivePasses) + 1) <= MaxSchedJobs
    /\ sch' = [sch EXCEPT ![s] = Continue([SchIdle EXCEPT !.now = clock,
                                                          !.due = DueTemplates(clock)])]
    /\ UNCHANGED <<clock, jobVars, ldVars, rtVars, procVars, regVars, authVars, thrVars, templates, sjobs, sent, reservations, man>>

\* _dispatch_due_probes, lines 117-118: a template with an active job is skipped
DispatchHasActive(s) ==
    /\ sch[s].pc = "active"
    /\ sch' = [sch EXCEPT ![s] = IF HasActiveJob(sch[s].tpl)
                                 THEN Continue(@)
                                 ELSE [@ EXCEPT !.pc = "watch"]]
    /\ UNCHANGED <<clock, jobVars, ldVars, rtVars, procVars, regVars, authVars, thrVars, templates, sjobs, sent, reservations, man>>

\* reserve_template_for_run, lines 124-136: WATCH, hget (no entry returns
\* None), and the due check
ReserveWatch(s) ==
    /\ sch[s].pc = "watch"
    /\ sch' = [sch EXCEPT ![s] = IF /\ templates[sch[s].tpl] # NoTemplate
                                    /\ StillDue(templates[sch[s].tpl], sch[s].now)
                                 THEN [@ EXCEPT !.pc = "exec", !.watched = templates]
                                 ELSE Continue(@)]
    /\ UNCHANGED <<clock, jobVars, ldVars, rtVars, procVars, regVars, authVars, thrVars, templates, sjobs, sent, reservations, man>>

\* reserve_template_for_run, lines 141-146: MULTI / hset / EXEC; a hash
\* written since WATCH raises WatchError and the loop starts over
ReserveExec(s) ==
    /\ sch[s].pc = "exec"
    /\ LET t == sch[s].tpl
       IN IF templates # sch[s].watched
          THEN /\ sch' = [sch EXCEPT ![s] = [@ EXCEPT !.pc = "watch", !.watched = <<>>]]
               /\ UNCHANGED <<templates, reservations>>
          ELSE /\ templates' = [templates EXCEPT ![t] = Reserved(sch[s].watched[t], sch[s].now)]
               /\ reservations' = Append(reservations, [tpl |-> t, at |-> sch[s].now, by |-> s])
               /\ sch' = [sch EXCEPT ![s] = [@ EXCEPT !.pc = "create", !.watched = <<>>]]
    /\ UNCHANGED <<clock, jobVars, ldVars, rtVars, procVars, regVars, authVars, thrVars, sjobs, sent, man>>

\* _dispatch_due_probes, lines 122-130: job_store.create_job
DispatchCreate(s) ==
    /\ sch[s].pc = "create"
    /\ Len(sjobs) < MaxSchedJobs
    /\ LET job == NewProbeJob(Len(sjobs) + 1, sch[s].tpl)
       IN /\ sjobs' = Append(sjobs, job)
          /\ sch' = [sch EXCEPT ![s] = [@ EXCEPT !.pc = "log", !.job = job]]
    /\ UNCHANGED <<clock, jobVars, ldVars, rtVars, procVars, regVars, authVars, thrVars, templates, sent, reservations, man>>

\* _dispatch_due_probes, line 131: append_log("Scheduled run enqueued ...")
DispatchLogEnqueued(s) ==
    /\ sch[s].pc = "log"
    /\ LET job == WithLog(sch[s].job, "Scheduled run enqueued by Latency Sleuth interval")
       IN /\ SaveProbeJob(job)
          /\ sch' = [sch EXCEPT ![s] = [@ EXCEPT !.pc = "send", !.job = job]]
    /\ UNCHANGED <<clock, jobVars, ldVars, rtVars, procVars, regVars, authVars, thrVars, templates, sent, reservations, man>>

\* _dispatch_due_probes, lines 133-138: the broker accepts the task
DispatchSend(s) ==
    /\ sch[s].pc = "send"
    /\ sent' = Append(sent, sch[s].job.id)
    /\ sch' = [sch EXCEPT ![s] = [@ EXCEPT !.pc = "attach"]]
    /\ UNCHANGED <<clock, jobVars, ldVars, rtVars, procVars, regVars, authVars, thrVars, templates, sjobs, reservations, man>>

\* _dispatch_due_probes, lines 139-142: the send raises; the job is failed
\* and append_log saves it
DispatchSendFails(s) ==
    /\ sch[s].pc = "send"
    /\ LET job == WithLog([sch[s].job EXCEPT !.status = "failed", !.error = "dispatch"],
                          "Error dispatching scheduled run")
       IN /\ SaveProbeJob(job)
          /\ sch' = [sch EXCEPT ![s] = [@ EXCEPT !.pc = "fail_save", !.job = job]]
    /\ UNCHANGED <<clock, jobVars, ldVars, rtVars, procVars, regVars, authVars, thrVars, templates, sent, reservations, man>>

\* _dispatch_due_probes, lines 143-145: save_job, then the next template
DispatchFailSave(s) ==
    /\ sch[s].pc = "fail_save"
    /\ SaveProbeJob(sch[s].job)
    /\ sch' = [sch EXCEPT ![s] = Continue(@)]
    /\ UNCHANGED <<clock, jobVars, ldVars, rtVars, procVars, regVars, authVars, thrVars, templates, sent, reservations, man>>

\* _dispatch_due_probes, line 146: attach_celery_task(job, result.id)
DispatchAttach(s) ==
    /\ sch[s].pc = "attach"
    /\ LET job == [sch[s].job EXCEPT !.celery_task_id = TaskOf(sch[s].job.id)]
       IN /\ SaveProbeJob(job)
          /\ sch' = [sch EXCEPT ![s] = [@ EXCEPT !.pc = "log_submitted", !.job = job]]
    /\ UNCHANGED <<clock, jobVars, ldVars, rtVars, procVars, regVars, authVars, thrVars, templates, sent, reservations, man>>

\* _dispatch_due_probes, line 147: append_log("Scheduled job submitted ...")
DispatchLogSubmitted(s) ==
    /\ sch[s].pc = "log_submitted"
    /\ SaveProbeJob(WithLog(sch[s].job, "Scheduled job submitted to worker task"))
    /\ sch' = [sch EXCEPT ![s] = Continue(@)]
    /\ UNCHANGED <<clock, jobVars, ldVars, rtVars, procVars, regVars, authVars, thrVars, templates, sent, reservations, man>>

\* delete_template, lines 175-179: hdel of the template's entry
DeleteTemplate ==
    /\ \E t \in TemplateIds :
         /\ templates[t] # NoTemplate
         /\ templates' = [templates EXCEPT ![t] = NoTemplate]
    /\ UNCHANGED <<clock, jobVars, ldVars, rtVars, procVars, regVars, authVars, thrVars, sjobs, sent, sch, reservations, man>>

ManIdle == [pc |-> "idle", job |-> NoJob]

\* probe_templates_run, lines 97-109, and enqueue_job, line 13: a manual run
\* of an existing template creates a probe job
ManualCreate ==
    /\ man.pc = "idle"
    /\ Len(sjobs) + MaxTemplates * Cardinality(ActivePasses) < MaxSchedJobs
    /\ \E t \in TemplateIds :
         LET job == [NewProbeJob(Len(sjobs) + 1, t) EXCEPT !.by = "api"]
         IN /\ templates[t] # NoTemplate
            /\ sjobs' = Append(sjobs, job)
            /\ man' = [pc |-> "send", job |-> job]
    /\ UNCHANGED <<clock, jobVars, ldVars, rtVars, procVars, regVars, authVars, thrVars, templates, sent, sch, reservations>>

\* enqueue_job, line 14: the broker accepts the task
ManualSend ==
    /\ man.pc = "send"
    /\ sent' = Append(sent, man.job.id)
    /\ man' = [man EXCEPT !.pc = "attach"]
    /\ UNCHANGED <<clock, jobVars, ldVars, rtVars, procVars, regVars, authVars, thrVars, templates, sjobs, sch, reservations>>

\* enqueue_job, line 14 raising: the exception propagates to the route
ManualSendFails ==
    /\ man.pc = "send"
    /\ man' = ManIdle
    /\ UNCHANGED <<clock, jobVars, ldVars, rtVars, procVars, regVars, authVars, thrVars, templates, sjobs, sent, sch, reservations>>

\* enqueue_job, line 15: attach_celery_task saves the API's copy of the job
ManualAttach ==
    /\ man.pc = "attach"
    /\ SaveProbeJob([man.job EXCEPT !.celery_task_id = TaskOf(man.job.id)])
    /\ man' = ManIdle
    /\ UNCHANGED <<clock, jobVars, ldVars, rtVars, procVars, regVars, authVars, thrVars, templates, sent, sch, reservations>>

\* run_job as the scheduler sees it: a worker takes a sent task and the
\* job's stored status becomes terminal
RunScheduledJob ==
    /\ \E n \in 1..Len(sent) :
         LET j == sent[n]
         IN /\ sjobs[j].status \notin TERMINAL_STATUSES
            /\ \E status \in {"succeeded", "failed"} :
                 sjobs' = [sjobs EXCEPT ![j] = [@ EXCEPT !.status = status]]
    /\ UNCHANGED <<clock, jobVars, ldVars, rtVars, procVars, regVars, authVars, thrVars, templates, sent, sch, reservations, man>>

(***************************************************************************)
(* update_template (toolkits/latency_sleuth/backend/storage.py): an hget,  *)
(* then an hset of the whole record, beside the scheduler passes.          *)
(***************************************************************************)
EdIdle == [pc |-> "idle", tpl |-> 0, current |-> NoTemplate, interval |-> 0, seen |-> 0]

\* interval_seconds of a ProbeTemplateUpdate: 0 when the payload has none
PayloadIntervals == {0, 30, 60}

edOthers == <<clock, jobVars, regVars, authVars, thrVars, ldVars, rtVars, stVars, rfVars, obsVars, imVars>>

\* update_template, lines 90-94: the payload carries an interval and it
\* differs from the stored one
IntervalChanged(current, interval) == interval # 0 /\ interval # current.interval

\* update_template, lines 87-104: the record read by get_template with the
\* payload's fields, updated_at, and next_run_at kept or set to utcnow()
UpdatedTemplate(current, interval, now) ==
    [current EXCEPT !.interval = IF interval # 0 THEN interval ELSE @,
                    !.updated_at = now,
                    !.next_run_at = IF IntervalChanged(current, interval) THEN now ELSE @]

\* update_template, lines 84-86: get_template; no entry returns None
UpdateGet ==
    /\ ed.pc = "idle"
    /\ edits < MaxEdits
    /\ edits' = edits + 1
    /\ \E t \in TemplateIds, interval \in PayloadIntervals :
         ed' = IF templates[t] = NoTemplate
               THEN EdIdle
               ELSE [pc |-> "put", tpl |-> t, current |-> templates[t],
                     interval |-> interval, seen |-> Len(reservations)]
    /\ UNCHANGED <<edOthers, schVars>>

\* update_template, lines 87-106: the hset of the updated record
UpdatePut ==
    /\ ed.pc = "put"
    /\ templates' = [templates EXCEPT ![ed.tpl] = UpdatedTemplate(ed.current, ed.interval, clock)]
    /\ ed' = EdIdle
    /\ UNCHANGED <<edOthers, sjobs, sent, sch, reservations, man, edits>>

InitEdit ==
    /\ ed = EdIdle
    /\ edits = 0

InitScheduler ==
    /\ templates = [t \in TemplateIds |-> NewTemplate(IntervalOf(t), 0)]
    /\ sjobs = <<>>
    /\ sent = <<>>
    /\ sch = [s \in Scheds |-> SchIdle]
    /\ reservations = <<>>
    /\ man = ManIdle

Scheduler(s) ==
    \/ DispatchStart(s)
    \/ DispatchHasActive(s)
    \/ ReserveWatch(s)
    \/ ReserveExec(s)
    \/ DispatchCreate(s)
    \/ DispatchLogEnqueued(s)
    \/ DispatchSend(s)
    \/ DispatchSendFails(s)
    \/ DispatchFailSave(s)
    \/ DispatchAttach(s)
    \/ DispatchLogSubmitted(s)

\* The scheduler loops of the worker processes while the broker accepts
\* every task: _scheduler_loop runs a pass every 30 seconds for ever, so a
\* pass that can start or go on does so, and a worker takes each sent task.
LiveScheduler(s) ==
    \/ DispatchStart(s)
    \/ DispatchHasActive(s)
    \/ ReserveWatch(s)
    \/ ReserveExec(s)
    \/ DispatchCreate(s)
    \/ DispatchLogEnqueued(s)
    \/ DispatchSend(s)
    \/ DispatchAttach(s)
    \/ DispatchLogSubmitted(s)

NextLive ==
    \/ \E s \in Scheds : LiveScheduler(s)
    \/ RunScheduledJob
    \/ DeleteTemplate
    \/ Tick

FairLive ==
    /\ \A s \in Scheds : WF_vars(LiveScheduler(s))
    /\ WF_vars(RunScheduledJob)

\* one scheduler instance beside the update_template calls
NextTemplates ==
    \/ Scheduler(1)
    \/ RunScheduledJob
    \/ Tick
    \/ UpdateGet
    \/ UpdatePut

NextScheduler ==
    \/ \E s \in Scheds : Scheduler(s)
    \/ DeleteTemplate
    \/ ManualCreate
    \/ ManualSend
    \/ ManualSendFails
    \/ ManualAttach
    \/ RunScheduledJob
    \/ Tick

(***************************************************************************)
(* Toolkit loader (backend/app/toolkit_loader.py): one process.            *)
(***************************************************************************)
\* what importing a bundle's backend module and reading its router does
BackendKinds == {"none", "import_fails", "no_router", "ok"}

\* what importing a bundle's worker module and calling its register does
WorkerKinds == {"none", "import_fails", "no_register", "register_raises", "ok"}

\* what a load pass logs for a toolkit
FailedResults == {"import_failed", "missing", "raised"}

\* _eligible_toolkits, lines 110-119: list_toolkits filtered on enabled and slugs
Eligible(slug) == tkRecord[slug] = "enabled"

\* a check that never finds the slug
NeverLoaded(slug) == FALSE

\* activate_toolkit, line 208: slug in _LOADED_SLUGS
AlreadyLoaded(slug) == slug \in loaded

\* load_toolkit_backends, lines 128-148, for one toolkit
BackendResult(slug) ==
    IF ~Eligible(slug) \/ bundle[slug].backend = "none" THEN "skipped"
    ELSE IF bundle[slug].backend = "import_fails" THEN "import_failed"
    ELSE IF bundle[slug].backend = "no_router" THEN "missing"
    ELSE "ok"

\* load_toolkit_workers, lines 161-200, for one toolkit
WorkerResult(slug) ==
    IF ~Eligible(slug) \/ bundle[slug].worker = "none" THEN "skipped"
    ELSE IF bundle[slug].worker = "import_fails" THEN "import_failed"
    ELSE IF bundle[slug].worker = "no_register" THEN "missing"
    ELSE IF bundle[slug].worker = "register_raises" THEN "raised"
    ELSE "ok"

Logged(slug, part, result) ==
    [slug |-> slug, part |-> part, result |-> result, seq |-> 1 - lastLoad.seq]

\* load_toolkit_backends(app, slugs={slug}), lines 122-152: the router is
\* mounted and the slug added only when the import and the router lookup succeed
LoadToolkitBackends(slug) ==
    LET result == BackendResult(slug)
    IN /\ routers' = [routers EXCEPT ![slug] = IF result = "ok" THEN @ + 1 ELSE @]
       /\ loaded' = IF result = "ok" THEN loaded \cup {slug} ELSE loaded
       /\ lastLoad' = Logged(slug, "backend", result)
       /\ loads' = loads + 1
       /\ UNCHANGED registered

\* load_toolkit_workers(celery_app, slugs={slug}), lines 155-201: a failed
\* import skips the toolkit (line 173); line 201 runs after the register call
\* whether it returned, raised, or was missing
LoadToolkitWorkers(slug) ==
    LET result == WorkerResult(slug)
    IN /\ registered' = [registered EXCEPT ![slug] = IF result = "ok" THEN @ + 1 ELSE @]
       /\ loaded' = IF result \in {"ok", "missing", "raised"} THEN loaded \cup {slug}
                    ELSE loaded
       /\ lastLoad' = Logged(slug, "worker", result)
       /\ loads' = loads + 1
       /\ UNCHANGED routers

ActIdle == [pc |-> "idle", slug |-> 0, failed |-> FALSE, ret |-> "none"]

Returned(slug, ret) == [ActIdle EXCEPT !.slug = slug, !.ret = ret]

\* load passes that the running activations may still make
LoadsAhead == 2 * Cardinality({c \in Callers : act[c].pc # "idle"})

\* register_app, lines 63-65
RegisterApp ==
    /\ ~appRef
    /\ appRef' = TRUE
    /\ UNCHANGED <<clock, jobVars, regVars, authVars, thrVars, schVars, rtVars, procVars>>
    /\ UNCHANGED <<tkRecord, bundle, celeryRef, loaded, routers, registered, act, loads, lastLoad>>

\* register_celery, lines 68-70
RegisterCelery ==
    /\ ~celeryRef
    /\ celeryRef' = TRUE
    /\ UNCHANGED <<clock, jobVars, regVars, authVars, thrVars, schVars, rtVars, procVars>>
    /\ UNCHANGED <<tkRecord, bundle, appRef, loaded, routers, registered, act, loads, lastLoad>>

\* activate_toolkit, lines 205-209: get_toolkit and the two early returns
ActivateCheck(c, slug) ==
    /\ act[c].pc = "idle"
    /\ loads + LoadsAhead + 2 <= MaxLoads
    /\ act' = [act EXCEPT ![c] =
                 IF tkRecord[slug] # "enabled" THEN Returned(slug, "not_enabled")
                 ELSE IF AlreadyLoaded(slug) THEN Returned(slug, "already_loaded")
                 ELSE [ActIdle EXCEPT !.pc = "backends", !.slug = slug]]
    /\ UNCHANGED <<clock, jobVars, regVars, authVars, thrVars, schVars, rtVars, procVars>>
    /\ UNCHANGED <<tkRecord, bundle, appRef, celeryRef, loaded, routers, registered, loads, lastLoad>>

\* activate_toolkit, lines 211-212
ActivateBackends(c) ==
    /\ act[c].pc = "backends"
    /\ IF appRef
       THEN /\ LoadToolkitBackends(act[c].slug)
            /\ act' = [act EXCEPT ![c] = [@ EXCEPT !.pc = "workers",
                         !.failed = @ \/ BackendResult(act[c].slug) \in FailedResults]]
       ELSE /\ act' = [act EXCEPT ![c] = [@ EXCEPT !.pc = "workers"]]
            /\ UNCHANGED <<loaded, routers, registered, loads, lastLoad>>
    /\ UNCHANGED <<clock, jobVars, regVars, authVars, thrVars, schVars, rtVars, procVars>>
    /\ UNCHANGED <<tkRecord, bundle, appRef, celeryRef>>

\* activate_toolkit, lines 213-214
ActivateWorkers(c) ==
    /\ act[c].pc = "workers"
    /\ IF celeryRef
       THEN /\ LoadToolkitWorkers(act[c].slug)
            /\ act' = [act EXCEPT ![c] = [@ EXCEPT !.pc = "add",
                         !.failed = @ \/ WorkerResult(act[c].slug) \in FailedResults]]
       ELSE /\ act' = [act EXCEPT ![c] = [@ EXCEPT !.pc = "add"]]
            /\ UNCHANGED <<loaded, routers, registered, loads, lastLoad>>
    /\ UNCHANGED <<clock, jobVars, regVars, authVars, thrVars, schVars, rtVars, procVars>>
    /\ UNCHANGED <<tkRecord, bundle, appRef, celeryRef>>

\* activate_toolkit, line 216: _LOADED_SLUGS.add(slug)
ActivateAdd(c) ==
    /\ act[c].pc = "add"
    /\ loaded' = loaded \cup {act[c].slug}
    /\ act' = [act EXCEPT ![c] = Returned(act[c].slug, "activated")]
    /\ UNCHANGED <<clock, jobVars, regVars, authVars, thrVars, schVars, rtVars, procVars>>
    /\ UNCHANGED <<tkRecord, bundle, appRef, celeryRef, routers, registered, loads, lastLoad>>

\* mark_toolkit_removed, lines 219-220
MarkToolkitRemoved(slug) ==
    /\ slug \in loaded
    /\ loaded' = loaded \ {slug}
    /\ UNCHANGED <<clock, jobVars, regVars, authVars, thrVars, schVars, rtVars, procVars>>
    /\ UNCHANGED <<tkRecord, bundle, appRef, celeryRef, routers, registered, act, loads, lastLoad>>

\* a direct load_toolkit_workers(celery_app, slugs={slug}), as in
\* worker/tasks.py line 44
WorkerLoad(slug) ==
    /\ loads + LoadsAhead + 1 <= MaxLoads
    /\ LoadToolkitWorkers(slug)
    /\ UNCHANGED <<clock, jobVars, regVars, authVars, thrVars, schVars, rtVars, procVars>>
    /\ UNCHANGED <<tkRecord, bundle, appRef, celeryRef, act>>

\* the registry record of the slug is created, enabled, disabled or deleted
SetRecord(slug, state) ==
    /\ tkRecord[slug] # state
    /\ tkRecord' = [tkRecord EXCEPT ![slug] = state]
    /\ UNCHANGED <<clock, jobVars, regVars, authVars, thrVars, schVars, rtVars, procVars>>
    /\ UNCHANGED <<bundle, appRef, celeryRef, loaded, routers, registered, act, loads, lastLoad>>

\* the slug's directory gets another backend module
ReplaceBackend(slug, backend) ==
    /\ bundle[slug].backend # backend
    /\ bundle' = [bundle EXCEPT ![slug].backend = backend]
    /\ UNCHANGED <<clock, jobVars, regVars, authVars, thrVars, schVars, rtVars, procVars>>
    /\ UNCHANGED <<tkRecord, appRef, celeryRef, loaded, routers, registered, act, loads, lastLoad>>

\* the slug's directory gets another worker module
ReplaceWorker(slug, worker) ==
    /\ bundle[slug].worker # worker
    /\ bundle' = [bundle EXCEPT ![slug].worker = worker]
    /\ UNCHANGED <<clock, jobVars, regVars, authVars, thrVars, schVars, rtVars, procVars>>
    /\ UNCHANGED <<tkRecord, appRef, celeryRef, loaded, routers, registered, act, loads, lastLoad>>

InitLoader ==
    /\ tkRecord = [slug \in Slugs |-> "enabled"]
    /\ bundle = [slug \in Slugs |-> [backend |-> "ok", worker |-> "ok"]]
    /\ appRef = FALSE
    /\ celeryRef = FALSE
    /\ loaded = {}
    /\ routers = [slug \in Slugs |-> 0]
    /\ registered = [slug \in Slugs |-> 0]
    /\ act = [c \in Callers |-> ActIdle]
    /\ loads = 0
    /\ lastLoad = [slug |-> 0, part |-> "none", result |-> "none", seq |-> 0]

NextLoader ==
    \/ RegisterApp
    \/ RegisterCelery
    \/ \E c \in Callers, slug \in Slugs : ActivateCheck(c, slug)
    \/ \E c \in Callers : ActivateBackends(c)
    \/ \E c \in Callers : ActivateWorkers(c)
    \/ \E c \in Callers : ActivateAdd(c)
    \/ \E slug \in Slugs : MarkToolkitRemoved(slug)
    \/ \E slug \in Slugs : WorkerLoad(slug)
    \/ \E slug \in Slugs, state \in {"none", "disabled", "enabled"} : SetRecord(slug, state)
    \/ \E slug \in Slugs, backend \in BackendKinds : ReplaceBackend(slug, backend)
    \/ \E slug \in Slugs, worker \in WorkerKinds : ReplaceWorker(slug, worker)

(***************************************************************************)
(* PUT /toolkits/{slug} (backend/app/routes/toolkits.py, toolkits_update), *)
(* served on the API process whose loader state is modelled above.  The    *)
(* registry record is the one get_toolkit returns; SetRecord is a write to *)
(* it by another process (the worker's seeding, another API process).      *)
(***************************************************************************)
\* the caller of activate_toolkit that is the event loop
RouteCaller == 1

UpdIdle == [pc |-> "idle", slug |-> 0, pay |-> NoPayload, previous |-> "none",
            toolkit |-> "none", flipped |-> FALSE]

\* update_toolkit, lines 300-301, on the record's enabled flag
Updated(state, pay) ==
    IF "enabled" \in pay.set THEN (IF pay.enabled THEN "enabled" ELSE "disabled")
    ELSE state

\* toolkits_update, line 454: toolkit.enabled and not previous.enabled
ActivationDue(toolkit, previous) == toolkit = "enabled" /\ previous # "enabled"

\* toolkits_update, line 451: previous = _get_toolkit_or_404(slug)
UpdatePrevious(slug, pay) ==
    /\ upd.pc = "idle"
    /\ act[RouteCaller].pc = "idle"
    /\ updates < MaxUpdates
    /\ loads + LoadsAhead + 2 <= MaxLoads
    /\ updates' = updates + 1
    /\ upd' = IF tkRecord[slug] = "none" THEN UpdIdle
              ELSE [UpdIdle EXCEPT !.pc = "update", !.slug = slug, !.pay = pay,
                                   !.previous = tkRecord[slug]]
    /\ UNCHANGED <<coreVars, procVars, slVars, inVars, ldVars, activations>>

\* toolkits_update, lines 452-453: update_toolkit; None is answered 404
UpdateWrite ==
    /\ upd.pc = "update"
    /\ IF tkRecord[upd.slug] = "none"
       THEN /\ upd' = UpdIdle
            /\ UNCHANGED tkRecord
       ELSE LET toolkit == Updated(tkRecord[upd.slug], upd.pay)
            IN /\ tkRecord' = [tkRecord EXCEPT ![upd.slug] = toolkit]
               /\ upd' = [upd EXCEPT !.pc = "decide", !.toolkit = toolkit,
                             !.flipped = tkRecord[upd.slug] = "disabled" /\ toolkit = "enabled"]
    /\ UNCHANGED <<coreVars, procVars, slVars, inVars>>
    /\ UNCHANGED <<bundle, appRef, celeryRef, loaded, routers, registered, act, loads, lastLoad>>
    /\ UNCHANGED <<updates, activations>>

\* toolkits_update, lines 454-455: activate_toolkit(slug) is called, and runs
\* its lines 205-209, or the route goes on to the audit
UpdateDecide ==
    /\ upd.pc = "decide"
    /\ IF ActivationDue(upd.toolkit, upd.previous)
       THEN /\ activations' = activations + 1
            /\ upd' = [upd EXCEPT !.pc = "activating"]
            /\ act' = [act EXCEPT ![RouteCaller] =
                         IF tkRecord[upd.slug] # "enabled" THEN Returned(upd.slug, "not_enabled")
                         ELSE IF AlreadyLoaded(upd.slug) THEN Returned(upd.slug, "already_loaded")
                         ELSE [ActIdle EXCEPT !.pc = "backends", !.slug = upd.slug]]
       ELSE /\ upd' = UpdIdle
            /\ UNCHANGED <<activations, act>>
    /\ UNCHANGED <<coreVars, procVars, slVars, inVars>>
    /\ UNCHANGED <<tkRecord, bundle, appRef, celeryRef, loaded, routers, registered, loads, lastLoad>>
    /\ UNCHANGED updates

\* toolkits_update, lines 456-474: activate_toolkit has returned; audit and answer
UpdateReturn ==
    /\ upd.pc = "activating"
    /\ act[RouteCaller].pc = "idle"
    /\ upd' = UpdIdle
    /\ UNCHANGED <<coreVars, procVars, slVars, inVars, ldVars, updates, activations>>

InitEnable ==
    /\ upd = UpdIdle
    /\ updates = 0
    /\ activations = 0

NextEnable ==
    \/ RegisterApp
    \/ \E slug \in Slugs, pay \in UpdatePayloads : UpdatePrevious(slug, pay)
    \/ UpdateWrite
    \/ UpdateDecide
    \/ UpdateReturn
    \/ ActivateBackends(RouteCaller)
    \/ ActivateWorkers(RouteCaller)
    \/ ActivateAdd(RouteCaller)
    \/ \E slug \in Slugs, state \in {"none", "disabled", "enabled"} : SetRecord(slug, state)

(***************************************************************************)
(* Slug texts (backend/app/toolkits/slugs.py) and the operations that      *)
(* store a toolkit row under one.  A text is a sequence of characters.     *)
(***************************************************************************)
Chars == {"a", "B", "-", " ", "!"}

\* _ALLOWED_SLUG_CHARS, restricted to Chars and their lowercase forms
ALLOWED_SLUG_CHARS == {"a", "b", "-"}

Texts == UNION {[1..n -> Chars] : n \in 0..MaxSlugLen}

\* str.lower() on one character
LowerChar(ch) == IF ch = "B" THEN "b" ELSE ch

Lower(text) == [i \in 1..Len(text) |-> LowerChar(text[i])]

RECURSIVE Strip(_)
\* str.strip(): leading and trailing whitespace removed
Strip(text) ==
    IF text = <<>> THEN text
    ELSE IF Head(text) = " " THEN Strip(Tail(text))
    ELSE IF text[Len(text)] = " " THEN Strip(SubSeq(text, 1, Len(text) - 1))
    ELSE text

\* _check_slug, lines 12-16: TRUE when it does not raise
CheckSlug(slug) == slug # <<>> /\ \A i \in 1..Len(slug) : slug[i] \in ALLOWED_SLUG_CHARS

\* normalise_slug, lines 19-26, for a str argument: the slug, or Invalid
Invalid == <<"invalid", "slug", "error">>

NormaliseSlug(raw) ==
    LET slug == Lower(Strip(raw))
    IN IF CheckSlug(slug) THEN slug ELSE Invalid

\* install_toolkit_from_directory, lines 103-119: the slug it installs under,
\* or Invalid when it raises ToolkitManifestError; "" and None are falsy
InstallSlug(manifest_slug_raw, slug_override) ==
    IF manifest_slug_raw = <<>> THEN Invalid
    ELSE IF NormaliseSlug(manifest_slug_raw) = Invalid THEN Invalid
    ELSE IF slug_override # <<>>
         THEN (IF NormaliseSlug(slug_override) = NormaliseSlug(manifest_slug_raw)
               THEN NormaliseSlug(slug_override) ELSE Invalid)
         ELSE NormaliseSlug(manifest_slug_raw)

\* the row of an installed bundle is created, or updated when it exists
Installed(op, slug) ==
    IF slug = Invalid
    THEN /\ slugAnswer' = [op |-> op, status |-> 400]
         /\ UNCHANGED slugRows
    ELSE /\ slugRows' = slugRows \cup {slug}
         /\ slugAnswer' = [op |-> op, status |-> 201]

\* toolkits_create, lines 430-434: create_toolkit(payload) with payload.slug
\* as posted; create_toolkit, lines 256-288, raises only for an existing row
ToolkitsCreate(raw) ==
    /\ Cardinality(slugRows) < MaxStored
    /\ IF raw \in slugRows
       THEN /\ slugAnswer' = [op |-> "create", status |-> 400]
            /\ UNCHANGED slugRows
       ELSE /\ slugRows' = slugRows \cup {raw}
            /\ slugAnswer' = [op |-> "create", status |-> 201]
    /\ UNCHANGED <<coreVars, procVars, ldVars, enVars, inVars>>

\* toolkits_install, lines 710-744: the form's slug, when given, is
\* normalised and passed as slug_override
ToolkitsInstall(form_slug, manifest_slug) ==
    /\ Cardinality(slugRows) < MaxStored
    /\ IF form_slug # <<>> /\ NormaliseSlug(form_slug) = Invalid
       THEN /\ slugAnswer' = [op |-> "install", status |-> 400]
            /\ UNCHANGED slugRows
       ELSE Installed("install", InstallSlug(manifest_slug,
                IF form_slug # <<>> THEN NormaliseSlug(form_slug) ELSE <<>>))
    /\ UNCHANGED <<coreVars, procVars, ldVars, enVars, inVars>>

\* toolkits_install_from_catalog, lines 490-493 and 556-563
ToolkitsInstallFromCatalog(payload_slug, manifest_slug) ==
    /\ Cardinality(slugRows) < MaxStored
    /\ IF NormaliseSlug(payload_slug) = Invalid
       THEN /\ slugAnswer' = [op |-> "catalog", status |-> 400]
            /\ UNCHANGED slugRows
       ELSE Installed("catalog", InstallSlug(manifest_slug, NormaliseSlug(payload_slug)))
    /\ UNCHANGED <<coreVars, procVars, ldVars, enVars, inVars>>

\* _discover_bundled_toolkits, lines 24-33, and ensure_bundled_toolkits_installed,
\* lines 41-58: a bundled directory whose manifest slug does not normalise is
\* not in _BUNDLED_TOOLKITS
SeedBundled(manifest_slug) ==
    /\ Cardinality(slugRows) < MaxStored
    /\ manifest_slug # <<>>
    /\ NormaliseSlug(manifest_slug) # Invalid
    /\ Installed("seed", InstallSlug(manifest_slug, <<>>))
    /\ UNCHANGED <<coreVars, procVars, ldVars, enVars, inVars>>

\* delete_toolkit: the row is deleted
SlugDelete(slug) ==
    /\ slug \in slugRows
    /\ slugRows' = slugRows \ {slug}
    /\ slugAnswer' = [op |-> "delete", status |-> 204]
    /\ UNCHANGED <<coreVars, procVars, ldVars, enVars, inVars>>

InitSlugs ==
    /\ slugRows = {}
    /\ slugAnswer = [op |-> "none", status |-> 0]

NextSlugs ==
    \/ \E raw \in Texts : ToolkitsCreate(raw)
    \/ \E form_slug, manifest_slug \in Texts : ToolkitsInstall(form_slug, manifest_slug)
    \/ \E payload_slug, manifest_slug \in Texts :
          ToolkitsInstallFromCatalog(payload_slug, manifest_slug)
    \/ \E manifest_slug \in Texts : SeedBundled(manifest_slug)
    \/ \E slug \in slugRows : SlugDelete(slug)

(***************************************************************************)
(* POST /toolkits/install (backend/app/routes/toolkits.py).  Paths are     *)
(* sequences of segments from the file system's root.                      *)
(***************************************************************************)
\* settings.toolkit_storage_dir
Storage == <<"storage">>

\* _extract_zip_bundle, lines 319-322: {storage}/__uploads__/{extraction_dirname}
ExtractRoot == <<"storage", "__uploads__", "bundle">>

\* path is dir or lies below it
Under(dir, path) == Len(dir) <= Len(path) /\ SubSeq(path, 1, Len(dir)) = dir

Segments == {"a", ".."}

MemberPaths == UNION {[1..n -> Segments] : n \in 1..MaxPathLen}

\* a ZipInfo: its filename (relative, absolute or with a drive letter) and
\* what the entry is
Members ==
    [parts : MemberPaths, prefix : {"relative", "absolute", "drive"},
     kind : {"file", "dir", "symlink", "oversized"}]

RECURSIVE Resolved(_, _)
\* Path.resolve() of `at` joined with parts
Resolved(at, parts) ==
    IF parts = <<>> THEN at
    ELSE IF Head(parts) = ".."
         THEN Resolved(IF at = <<>> THEN at ELSE SubSeq(at, 1, Len(at) - 1), Tail(parts))
         ELSE Resolved(Append(at, Head(parts)), Tail(parts))

Rejected == <<"HTTP", "400">>

\* Path.joinpath and resolve with no validation: an absolute name replaces
\* the root, a drive letter is part of a name on this platform
AnyMemberPath(member) ==
    IF member.prefix = "absolute" THEN Resolved(<<>>, member.parts)
    ELSE IF member.prefix = "drive" THEN Resolved(Append(ExtractRoot, "c:"), member.parts)
    ELSE Resolved(ExtractRoot, member.parts)

\* _resolve_safe_member_path, lines 661-695: the resolved destination, or Rejected
SafeMemberPath(member) ==
    IF member.prefix = "drive" THEN Rejected
    ELSE IF member.prefix = "absolute" THEN Rejected
    ELSE IF \E i \in 1..Len(member.parts) : member.parts[i] = ".." THEN Rejected
    ELSE IF ~Under(ExtractRoot, Resolved(ExtractRoot, member.parts)) THEN Rejected
    ELSE Resolved(ExtractRoot, member.parts)

\* the directories between the extraction root and path, path excluded
Parents(path) ==
    {SubSeq(path, 1, n) : n \in 1..(Len(path) - 1)} \ {SubSeq(ExtractRoot, 1, n) : n \in 0..Len(ExtractRoot)}

\* mkdir(parents=True, exist_ok=True) of dir raises: a file is in the way
MkdirFails(dir) == (Parents(dir) \cup {dir}) \cap fsFiles # {}

IngIdle == [pc |-> "idle", status |-> 0, members |-> 0, rowBefore |-> 0, refused |-> FALSE]

\* the request is answered with an error status
Answered(status) == [ing EXCEPT !.pc = "idle", !.status = status]

\* shutil.rmtree(toolkit_root): what extraction wrote below the root is gone
RemoveExtraction ==
    /\ fsFiles' = {f \in fsFiles : ~Under(ExtractRoot, f)}
    /\ fsDirs' = {d \in fsDirs : ~Under(ExtractRoot, d)}
    /\ extractDir' = FALSE

\* toolkits_install, lines 710-724, and _stream_upload_to_path, lines 193-216:
\* the upload is written to the bundle path; past the cap the file is
\* unlinked and the request answered 413.  A request is followed only once
\* what the previous one left behind has been counted.
IngestUpload(size) ==
    /\ ing.pc = "idle"
    /\ ingests < MaxIngests
    /\ ~bundleFile /\ ~extractDir
    /\ ingests' = ingests + 1
    /\ IF size = "over"
       THEN /\ ing' = [IngIdle EXCEPT !.status = 413, !.rowBefore = ingRow]
            /\ UNCHANGED bundleFile
       ELSE /\ ing' = [IngIdle EXCEPT !.pc = "extract", !.rowBefore = ingRow]
            /\ bundleFile' = TRUE
    /\ UNCHANGED <<coreVars, procVars, ldVars, enVars, slVars, fsFiles, fsDirs, extractDir, destDir, ingRow>>

\* _extract_zip_bundle, lines 318-326: the extraction directory is made afresh
ExtractStart ==
    /\ ing.pc = "extract"
    /\ extractDir' = TRUE
    /\ ing' = [ing EXCEPT !.pc = "members"]
    /\ UNCHANGED <<coreVars, procVars, ldVars, enVars, slVars, fsFiles, fsDirs, bundleFile, destDir, ingRow, ingests>>

\* the except clauses of _extract_zip_bundle, lines 378-380, and of
\* toolkits_install, lines 729-731
ExtractRefused(status) ==
    /\ RemoveExtraction
    /\ bundleFile' = FALSE
    /\ ing' = [Answered(status) EXCEPT !.refused = status = 400]

\* an OSError leaves _extract_zip_bundle and toolkits_install through no
\* except clause
ExtractCrashed ==
    /\ ing' = Answered(500)
    /\ UNCHANGED <<fsFiles, fsDirs, bundleFile, extractDir>>

\* _extract_zip_bundle, lines 333-376: one member of the archive
ExtractMember(member) ==
    /\ ing.pc = "members"
    /\ ing.members < MaxEntries
    /\ LET target == SafeMemberPath(member)
       IN IF target = Rejected \/ member.kind = "symlink" THEN ExtractRefused(400)
          ELSE IF member.kind = "dir"
               THEN IF MkdirFails(target) THEN ExtractCrashed
                    ELSE /\ fsDirs' = fsDirs \cup Parents(target) \cup {target}
                         /\ ing' = [ing EXCEPT !.members = @ + 1]
                         /\ UNCHANGED <<fsFiles, bundleFile, extractDir>>
          ELSE IF member.kind = "oversized" THEN ExtractRefused(413)
          ELSE IF MkdirFails(SubSeq(target, 1, Len(target) - 1)) \/ target \in fsDirs
               THEN ExtractCrashed
               ELSE /\ fsDirs' = fsDirs \cup Parents(target)
                    /\ fsFiles' = fsFiles \cup {target}
                    /\ ing' = [ing EXCEPT !.members = @ + 1]
                    /\ UNCHANGED <<bundleFile, extractDir>>
    /\ UNCHANGED <<coreVars, procVars, ldVars, enVars, slVars, destDir, ingRow, ingests>>

\* _extract_zip_bundle, line 382: every member was extracted
ExtractDone ==
    /\ ing.pc = "members"
    /\ ing' = [ing EXCEPT !.pc = "validate"]
    /\ UNCHANGED <<coreVars, procVars, ldVars, enVars, slVars, fsFiles, fsDirs, bundleFile, extractDir, destDir, ingRow, ingests>>

\* what install_toolkit_from_directory, lines 99-176, finds in the bundle:
\* no toolkit.json, text that is not JSON, a slug that does not normalise or
\* differs from the override, a tree with an unsupported entry (all raise
\* ToolkitManifestError), or JSON that is not an object (manifest.get raises
\* AttributeError)
ManifestKinds ==
    {"ok", "missing", "not_json", "bad_slug", "slug_mismatch", "bad_tree", "not_object"}

\* toolkits_install, lines 733-746, when install_toolkit_from_directory
\* raises before the copy: the except clause unlinks the bundle for a
\* ToolkitManifestError only; the finally clause removes the extraction
InstallValidate(manifest) ==
    /\ ing.pc = "validate"
    /\ IF manifest = "ok"
       THEN /\ ing' = [ing EXCEPT !.pc = "copy"]
            /\ UNCHANGED <<fsFiles, fsDirs, bundleFile, extractDir>>
       ELSE /\ RemoveExtraction
            /\ IF manifest = "not_object"
               THEN /\ ing' = Answered(500)
                    /\ UNCHANGED bundleFile
               ELSE /\ ing' = Answered(400)
                    /\ bundleFile' = FALSE
    /\ UNCHANGED <<coreVars, procVars, ldVars, enVars, slVars, destDir, ingRow, ingests>>

\* install_toolkit_from_directory, lines 188-190: rmtree of the destination
\* and copytree; an OSError of the copy is no ToolkitManifestError
InstallCopy(copied) ==
    /\ ing.pc = "copy"
    /\ IF copied
       THEN /\ destDir' = "installed"
            /\ ing' = [ing EXCEPT !.pc = "registry"]
            /\ UNCHANGED <<fsFiles, fsDirs, bundleFile, extractDir>>
       ELSE /\ destDir' = "partial"
            /\ RemoveExtraction
            /\ ing' = Answered(500)
            /\ UNCHANGED bundleFile
    /\ UNCHANGED <<coreVars, procVars, ldVars, enVars, slVars, ingRow, ingests>>

\* install_toolkit_from_directory, lines 192-243: the record is created or
\* updated; toolkits_install, lines 745-777: the extraction is removed, the
\* bundle renamed to {slug}.zip and the request answered 202
InstallRegistry ==
    /\ ing.pc = "registry"
    /\ ingRow' = ingRow + 1
    /\ RemoveExtraction
    /\ bundleFile' = FALSE
    /\ ing' = Answered(202)
    /\ UNCHANGED <<coreVars, procVars, ldVars, enVars, slVars, destDir, ingests>>

InitIngest ==
    /\ fsFiles = {}
    /\ fsDirs = {}
    /\ bundleFile = FALSE
    /\ extractDir = FALSE
    /\ destDir = "absent"
    /\ ingRow = 0
    /\ ing = IngIdle
    /\ ingests = 0

NextIngest ==
    \/ \E size \in {"within", "over"} : IngestUpload(size)
    \/ ExtractStart
    \/ \E member \in Members : ExtractMember(member)
    \/ ExtractDone
    \/ \E manifest \in ManifestKinds : InstallValidate(manifest)
    \/ \E copied \in BOOLEAN : InstallCopy(copied)
    \/ InstallRegistry

(***************************************************************************)
(* Specifications.                                                         *)
(***************************************************************************)
(***************************************************************************)
(* import_toolkit_module (backend/app/toolkit_loader.py) called from       *)
(* several threads of one process: the threadpool threads that serve       *)
(* dashboard_overview, or the pool threads of a worker that load a toolkit *)
(* lazily.  The module table is the part of sys.modules under the          *)
(* toolkit namespaces; each statement of _module_namespace is one step.    *)
(***************************************************************************)
Importers == 1..MaxImporters

\* module names under the namespaces: one the host has loaded and the
\* bundle also provides, and one only the bundle provides
ModuleNames == {"worker", "backend"}

NoModules == [n \in ModuleNames |-> "none"]

\* the table of the process before any toolkit import
HostModules == [n \in ModuleNames |-> IF n = "worker" THEN "host" ELSE "none"]

ImIdle == [pc |-> "idle", preserved |-> NoModules]

imOthers == <<coreVars, ldVars, rtVars, stVars, rfVars, obsVars, edVars>>

\* _module_namespace, line 49: preserved = the matching entries of sys.modules
NamespaceSnapshot(p) ==
    /\ im[p].pc = "idle"
    /\ imports < MaxImports
    /\ imports' = imports + 1
    /\ im' = [im EXCEPT ![p] = [pc |-> "pop", preserved |-> modTable]]
    /\ UNCHANGED <<imOthers, modTable, metaPath>>

\* _module_namespace, lines 50-51: the preserved names are popped
NamespacePop(p) ==
    /\ im[p].pc = "pop"
    /\ modTable' = [n \in ModuleNames |->
                       IF im[p].preserved[n] # "none" THEN "none" ELSE modTable[n]]
    /\ im' = [im EXCEPT ![p].pc = "finder"]
    /\ UNCHANGED <<imOthers, metaPath, imports>>

\* import_toolkit_module, line 97: sys.meta_path.insert(0, finder)
FinderInsert(p) ==
    /\ im[p].pc = "finder"
    /\ metaPath' = metaPath + 1
    /\ im' = [im EXCEPT ![p].pc = "import"]
    /\ UNCHANGED <<imOthers, modTable, imports>>

\* import_toolkit_module, line 99: import_module enters the modules it
\* executes into sys.modules; a name that has an entry keeps it
ImportModule(p) ==
    /\ im[p].pc = "import"
    /\ modTable' = [n \in ModuleNames |->
                       IF modTable[n] = "none" THEN "bundle" ELSE modTable[n]]
    /\ im' = [im EXCEPT ![p].pc = "remove"]
    /\ UNCHANGED <<imOthers, metaPath, imports>>

\* import_toolkit_module, line 99: import_module raises before any module
\* is entered
ImportRaises(p) ==
    /\ im[p].pc = "import"
    /\ im' = [im EXCEPT ![p].pc = "remove"]
    /\ UNCHANGED <<imOthers, modTable, metaPath, imports>>

\* import_toolkit_module, lines 100-102: the finders of one toolkit compare
\* equal (dataclass), so remove takes any one of them out
FinderRemove(p) ==
    /\ im[p].pc = "remove"
    /\ metaPath' = IF metaPath > 0 THEN metaPath - 1 ELSE 0
    /\ im' = [im EXCEPT ![p].pc = "drop"]
    /\ UNCHANGED <<imOthers, modTable, imports>>

\* _module_namespace, lines 55-57: every matching name is popped
NamespaceDrop(p) ==
    /\ im[p].pc = "drop"
    /\ modTable' = NoModules
    /\ im' = [im EXCEPT ![p].pc = "restore"]
    /\ UNCHANGED <<imOthers, metaPath, imports>>

\* _module_namespace, lines 58-60: the preserved entries are put back
NamespaceRestore(p) ==
    /\ im[p].pc = "restore"
    /\ modTable' = [n \in ModuleNames |->
                       IF im[p].preserved[n] # "none" THEN im[p].preserved[n] ELSE modTable[n]]
    /\ im' = [im EXCEPT ![p] = ImIdle]
    /\ UNCHANGED <<imOthers, metaPath, imports>>

InitImport ==
    /\ modTable = HostModules
    /\ metaPath = 0
    /\ im = [p \in Importers |-> ImIdle]
    /\ imports = 0

Importer(p) ==
    \/ NamespaceSnapshot(p)
    \/ NamespacePop(p)
    \/ FinderInsert(p)
    \/ ImportModule(p)
    \/ ImportRaises(p)
    \/ FinderRemove(p)
    \/ NamespaceDrop(p)
    \/ NamespaceRestore(p)

NextImport == \E p \in Importers : Importer(p)

(***************************************************************************)
(* The probe toolkit's scheduler thread in one worker process              *)
(* (toolkits/latency_sleuth/worker/tasks.py, backend/worker/worker.py,     *)
(* backend/worker/tasks.py, backend/app/toolkit_loader.py).  The process   *)
(* runs one call at a time; the scheduler threads run beside it.           *)
(***************************************************************************)
\* the globals of a freshly executed module: _scheduler_registered = False,
\* _scheduler_thread = None (lines 30-32)
FreshModule == [registered |-> FALSE, thread |-> FALSE]

StIdle == [pc |-> "idle", copy |-> 0]

stOthers == <<coreVars, ldVars, rtVars, rfVars, obsVars, edVars, imVars>>

\* worker.py, line 10: load_toolkit_workers(celery_app) at start-up
StartLoad ==
    /\ st.pc = "idle"
    /\ stMods = <<>>
    /\ st' = [st EXCEPT !.pc = "import"]
    /\ UNCHANGED <<stOthers, stMods, stThreads, stHandler, stLoaded, stForked>>

\* _ensure_handler, lines 31-44: run_job of a job whose type has the probe
\* toolkit's slug and no registered handler; mark_toolkit_removed, then
\* load_toolkit_workers(celery_app, slugs={slug})
LazyLoad ==
    /\ st.pc = "idle"
    /\ stMods # <<>>
    /\ Len(stMods) < MaxCopies
    /\ stLoaded' = FALSE
    /\ st' = [st EXCEPT !.pc = "import"]
    /\ UNCHANGED <<stOthers, stMods, stThreads, stHandler, stForked>>

\* import_toolkit_module, lines 79-102: _module_namespace has left no copy of
\* the module in sys.modules, so import_module executes its source again
ImportWorkerModule ==
    /\ st.pc = "import"
    /\ stMods' = Append(stMods, FreshModule)
    /\ st' = [pc |-> "register", copy |-> Len(stMods) + 1]
    /\ UNCHANGED <<stOthers, stThreads, stHandler, stLoaded, stForked>>

\* a register of an earlier copy is called once more
RegisterAgain ==
    /\ st.pc = "idle"
    /\ \E copy \in 1..Len(stMods) : st' = [pc |-> "register", copy |-> copy]
    /\ UNCHANGED <<stOthers, stMods, stThreads, stHandler, stLoaded, stForked>>

\* register, lines 223-230: register_handler, then the flag of this copy
RegisterHandler ==
    /\ st.pc = "register"
    /\ stHandler' = st.copy
    /\ st' = [st EXCEPT !.pc = IF stMods[st.copy].registered THEN "add" ELSE "ensure"]
    /\ UNCHANGED <<stOthers, stMods, stThreads, stLoaded, stForked>>

\* _ensure_scheduler, line 208: this copy's _scheduler_thread is set and alive
ThreadAlive(copy) == stMods[copy].thread

\* _ensure_scheduler, lines 205-220: under this copy's lock, start a thread
\* unless this copy's thread is alive
EnsureScheduler ==
    /\ st.pc = "ensure"
    /\ IF ThreadAlive(st.copy)
       THEN UNCHANGED <<stMods, stThreads>>
       ELSE /\ stThreads' = stThreads + 1
            /\ stMods' = [stMods EXCEPT ![st.copy].thread = TRUE]
    /\ st' = [st EXCEPT !.pc = "flag"]
    /\ UNCHANGED <<stOthers, stHandler, stLoaded, stForked>>

\* register, line 234: _scheduler_registered = True
SetRegistered ==
    /\ st.pc = "flag"
    /\ stMods' = [stMods EXCEPT ![st.copy].registered = TRUE]
    /\ st' = [st EXCEPT !.pc = "add"]
    /\ UNCHANGED <<stOthers, stThreads, stHandler, stLoaded, stForked>>

\* load_toolkit_workers, line 201: _LOADED_SLUGS.add(toolkit.slug); a direct
\* call of register returns here
LoadedAdd ==
    /\ st.pc = "add"
    /\ stLoaded' = TRUE
    /\ st' = StIdle
    /\ UNCHANGED <<stOthers, stMods, stThreads, stHandler, stForked>>

\* the prefork pool forks a child: the globals are copied, the threads are not
ForkChild ==
    /\ st.pc = "idle"
    /\ stMods # <<>>
    /\ ~stForked
    /\ stForked' = TRUE
    /\ stThreads' = 0
    /\ stMods' = [i \in 1..Len(stMods) |-> [stMods[i] EXCEPT !.thread = FALSE]]
    /\ UNCHANGED <<stOthers, stHandler, stLoaded, st>>

InitThread ==
    /\ stMods = <<>>
    /\ stThreads = 0
    /\ stHandler = 0
    /\ stLoaded = FALSE
    /\ stForked = FALSE
    /\ st = StIdle

NextThread ==
    \/ StartLoad
    \/ LazyLoad
    \/ ImportWorkerModule
    \/ RegisterAgain
    \/ RegisterHandler
    \/ EnsureScheduler
    \/ SetRegistered
    \/ LoadedAdd
    \/ ForkChild

Init ==
    /\ InitJobs
    /\ InitRegistry
    /\ InitAuth
    /\ InitThrottle
    /\ InitScheduler
    /\ InitLoader
    /\ InitEnable
    /\ InitSlugs
    /\ InitIngest
    /\ InitThread
    /\ InitRefreshers
    /\ InitEdit
    /\ InitImport

SpecImport == Init /\ [][NextImport]_vars

SpecSchedulerLive == Init /\ [][NextLive]_vars /\ FairLive

SpecTemplates == Init /\ [][NextTemplates]_vars

SpecRefreshers == Init /\ [][NextRefreshers]_vars

SpecRedelivery == Init /\ [][NextRedelivery]_vars

SpecThread == Init /\ [][NextThread]_vars

Spec == Init /\ [][Next]_vars

SpecRegistry == Init /\ [][NextRegistry]_vars

SpecRegistrySeq == Init /\ [][NextRegistrySeq]_vars

SpecAuth == Init /\ [][NextAuth]_vars

SpecThrottle == Init /\ [][NextThrottle]_vars

SpecScheduler == Init /\ [][NextScheduler]_vars

SpecLoader == Init /\ [][NextLoader]_vars

SpecEnable == Init /\ [][NextEnable]_vars

SpecSlugs == Init /\ [][NextSlugs]_vars

SpecIngest == Init /\ [][NextIngest]_vars

(***************************************************************************)
(* Properties of the job substrate.                                        *)
(***************************************************************************)
Stored(j) == jobs[j] # NoJob

IsTerminal(j) == Stored(j) /\ jobs[j].status \in TERMINAL_STATUSES

\* message a occurs in the log before a later occurrence of message b
LoggedInOrder(logs, a, b) ==
    \E m, n \in 1..Len(logs) : m < n /\ logs[m] = a /\ logs[n] = b

\* C1: once the stored record of a job has a terminal status, no later write
\* changes its status, result or error.
C1_TerminalIsFinal ==
    [][\A j \in JobIds :
          IsTerminal(j) =>
              /\ jobs'[j].status = jobs[j].status
              /\ jobs'[j].result = jobs[j].result
              /\ jobs'[j].error = jobs[j].error]_vars

\* the worker is inside the handler's loop or past it: the job it executes
\* was stored `running` by this run_job
InHandler(t) ==
    wk[t].pc \in {"z_poll", "z_cancel", "z_save", "z_log", "p_poll", "p_cancel",
                  "p_log", "p_save", "p_finish", "p_succeed", "final_save"}

\* C2: once cancel_job has stored `cancelling` for a job a handler is running,
\* no write of that worker (the handler's saves, run_job's final save) puts the
\* job back to `running` or ends it `succeeded`.
C2_CancelNotClobbered ==
    [][\A t \in TaskIds :
          (/\ InHandler(t)
           /\ jobs[wk[t].job.id].status = "cancelling"
           /\ wk'[t] # wk[t]) =>
              jobs'[wk[t].job.id].status \notin {"running", "succeeded"}]_vars

\* C4: after cancel_job has finished on a job it loaded as `queued`, the stored
\* job is `cancelled` with a null result, its log holds "Cancellation requested"
\* followed by "Job cancelled before execution", and no handler runs afterwards.
C4_QueuedCancelIsFinal ==
    \A j \in JobIds :
        preCancelled[j] >= 0 =>
            /\ jobs[j].status = "cancelled"
            /\ jobs[j].result = "null"
            /\ LoggedInOrder(jobs[j].logs, "Cancellation requested",
                             "Job cancelled before execution")
            /\ handlerRuns[j] = preCancelled[j]

C8_NoReseedAfterDelete ==
    [][\A p \in Callers : \A s \in Slugs :
          (/\ rp[p].op \in {"seed", "get", "list"}
           /\ s \in rp[p].fresh
           /\ removedBundled[s]
           /\ rp'[p] # rp[p]
           /\ sql[s] = NoRow) => sql'[s] = NoRow]_vars

\* C9: when no call is in progress every record in the KV mirror equals its
\* SQL row, and no step of get_toolkit or list_toolkits changes the SQL table.
C9_MirrorFollowsSql ==
    /\ [](Quiescent => \A s \in Slugs : kv[s] # NoRow => kv[s] = sql[s])
    /\ [][\A p \in Callers :
             (rp[p].op \in {"get", "list"} /\ rp'[p] # rp[p]) => sql' = sql]_vars

(***************************************************************************)
(* Properties of scheduled dispatch.                                       *)
(***************************************************************************)
ReservationsOf(t) == {n \in 1..Len(reservations) : reservations[n].tpl = t}

ScheduledJobsOf(t) ==
    {j \in 1..Len(sjobs) : sjobs[j].template = t /\ sjobs[j].by = "scheduler"}

\* the jobs the scheduler created, and the tasks sent for them
ScheduledJobs == {j \in 1..Len(sjobs) : sjobs[j].by = "scheduler"}

SentScheduled == {n \in 1..Len(sent) : sent[n] \in ScheduledJobs}

\* jobs whose send the broker refused
UnsentJobs == {j \in 1..Len(sjobs) : sjobs[j].error = "dispatch"}

AllPassesDone == \A s \in Scheds : sch[s].pc = "idle"

Superseded(jti) ==
    \E k \in 1..Len(issuedTokens) : k > jti /\ issuedTokens[k].sid = issuedTokens[jti].sid

\* the most recently issued refresh token of session sid
LatestToken(sid) ==
    LET of == {k \in 1..Len(issuedTokens) : issuedTokens[k].sid = sid}
    IN issuedTokens[CHOOSE k \in of : \A m \in of : m <= k]

StoredHashIsLatest ==
    \A i \in 1..Len(sessions) : sessions[i].hash = hash_token(LatestToken(i))

\* this step answers a refresh request
RefreshAnswered == authResp'.seq # authResp.seq /\ authResp'.op = "refresh"

\* C5 as stated: a refresh presenting a rotated-out token is always answered
\* 401 "Refresh token not recognized", the newest token of a live session is
\* accepted, and the stored hash is the hash of the newest token.
C5_OldTokenNotRecognized ==
    /\ []StoredHashIsLatest
    /\ [][RefreshAnswered =>
            LET token == issuedTokens[authResp'.token]
            IN /\ Superseded(token.jti) =>
                    /\ authResp'.status = 401
                    /\ authResp'.detail = "Refresh token not recognized"
               /\ (/\ ~Superseded(token.jti)
                   /\ ~sessions[token.sid].revoked
                   /\ token.exp > clock
                   /\ userActive) => authResp'.status = 200]_vars

\* C5 amended: a refresh presenting a rotated-out token is answered 401, with
\* "Refresh token not recognized" while the token's own exp has not passed and
\* "Token expired" afterwards; the newest token of a live session is accepted,
\* and the stored hash is the hash of the newest token.
C5_OldTokenRejected ==
    /\ []StoredHashIsLatest
    /\ [][RefreshAnswered =>
            LET token == issuedTokens[authResp'.token]
            IN /\ Superseded(token.jti) =>
                    /\ authResp'.status = 401
                    /\ authResp'.detail = IF token.exp <= clock
                                          THEN "Token expired"
                                          ELSE "Refresh token not recognized"
               /\ (/\ ~Superseded(token.jti)
                   /\ ~sessions[token.sid].revoked
                   /\ token.exp > clock
                   /\ userActive) => authResp'.status = 200]_vars

\* R1 was refreshed into R2, R2 was refreshed again, and then R1 was
\* presented once more and refused
C5_Witness ==
    /\ Len(issuedTokens) = 3
    /\ authResp.op = "refresh"
    /\ authResp.token = 1
    /\ Superseded(1)
    /\ authResp.status = 401
    /\ authResp.detail = "Refresh token not recognized"
    /\ issuedTokens[3].sid = issuedTokens[1].sid

\* C6: a refresh is accepted only if a session record holds the SHA-256 of
\* the presented token, is not revoked and expires later than now; any other
\* refresh is answered 401, issues no token and leaves the records unchanged.
C6_AcceptedOnlyForLiveSession ==
    [][RefreshAnswered =>
          LET token == issuedTokens[authResp'.token]
          IN IF authResp'.status = 200
             THEN \E i \in 1..Len(sessions) :
                      /\ sessions[i].hash = hash_token(token)
                      /\ ~sessions[i].revoked
                      /\ sessions[i].expires_at > clock
             ELSE /\ authResp'.status = 401
                  /\ sessions' = sessions
                  /\ issuedTokens' = issuedTokens]_vars

\* the newest token of a session revoked by logout was presented and refused
C6_Witness ==
    /\ authResp.op = "refresh"
    /\ authResp.status = 401
    /\ authResp.detail = "Refresh token not recognized"
    /\ ~Superseded(authResp.token)
    /\ sessions[issuedTokens[authResp.token].sid].revoked
    /\ issuedTokens[authResp.token].exp > clock

(***************************************************************************)
(* Properties of the local login throttle.                                 *)
(***************************************************************************)
\* this step answers a login request
LoginAnswered == thrResp'.seq # thrResp.seq

WrongStreak(k, n) ==
    /\ k < n
    /\ k = 0 \/ answers[k].status = 200
    /\ \A i \in (k + 1)..n : answers[i].cred = "wrong"
    /\ answers[n].time = IF k = 0 THEN 0 ELSE answers[k].time

C12_DefaultsToSucceeded ==
    [][\A t \in TaskIds :
          (wk[t].pc = "invoke" /\ wk[t].job.type = DemoType /\ wk'[t].pc = "done") =>
              /\ jobs'[wk[t].job.id].status = "succeeded"
              /\ jobs'[wk[t].job.id].progress = 100]_vars

\* run_job has stored `running` for the job of task t and has not returned
InExecution(t) ==
    InHandler(t) \/ wk[t].pc \in {"log_started", "invoke", "set_error"}

\* C13: while a worker executes a job (from its write of `running` until the
\* stored job is terminal) no write to the stored record, by whichever writer,
\* lowers its progress.
C13_ProgressNeverDecreases ==
    [][\A t \in TaskIds :
          (/\ InExecution(t)
           /\ ~IsTerminal(wk[t].job.id)) =>
              jobs'[wk[t].job.id].progress >= jobs[wk[t].job.id].progress]_vars

\* sequence a is an initial part of sequence b
IsPrefix(a, b) == Len(a) <= Len(b) /\ \A i \in 1..Len(a) : b[i] = a[i]

\* C14: every write to a stored job leaves the log entries stored before it
\* in place and in order: the new logs extend the old ones.
C14_LogsAppendOnly ==
    [][\A j \in JobIds :
          Stored(j) => IsPrefix(jobs[j].logs, jobs'[j].logs)]_vars

(***************************************************************************)
(* Properties of the dispatch pass's active-job check.                     *)
(***************************************************************************)
\* a probe job of template t with a non-terminal status is in the store
ActiveJobStored(t) ==
    \E j \in 1..Len(sjobs) :
        sjobs[j].template = t /\ sjobs[j].status \notin TERMINAL_STATUSES

\* C15: when a pass checks a due template for which the store holds a probe
\* job with a non-terminal status, it skips the template, however many other
\* probe jobs the store holds: the pass does not go on to reserve it, and the
\* step leaves the templates, the jobs, the broker and the reservations alone.
C15_ActiveTemplateSkipped ==
    [][\A s \in Scheds :
          (/\ sch[s].pc = "active"
           /\ sch'[s] # sch[s]
           /\ ActiveJobStored(sch[s].tpl)) =>
              /\ sch'[s].pc # "watch"
              /\ UNCHANGED <<templates, sjobs, sent, reservations>>]_vars

(***************************************************************************)
(* Properties of the stale-job resubmission.                               *)
(***************************************************************************)
\* this step of the resubmission pass sends a task for, or writes, its
\* current job, and the broker did not refuse the send
ResubmitActs ==
    /\ rs.pc \in {"send", "attach", "log"}
    /\ rs' # rs
    /\ rs'.pc # "fail_save"

\* C16: the pass re-sends and rewrites only jobs that are stored `queued`:
\* whenever it sends a task for a job or writes it, the stored job has status
\* `queued` (a job in any other status is neither re-sent nor modified), and
\* the job it selected was a probe job at least STALE_JOB_GRACE_SECONDS old.
C16_ResubmitsOnlyStaleQueued ==
    [][ResubmitActs =>
          /\ rs.job.type = ProbeType
          /\ jobs[rs.job.id].status = "queued"
          /\ jobs'[rs.job.id].status = "queued"]_vars

(***************************************************************************)
(* Properties of reserve_template_for_run.                                 *)
(***************************************************************************)
\* this step is a successful reservation by instance s
ReservedBy(s) ==
    /\ sch[s].pc = "exec"
    /\ sch'[s] # sch[s]
    /\ Len(reservations') = Len(reservations) + 1

\* this step is a reservation call of instance s that returns None
RefusedTo(s) ==
    /\ sch[s].pc = "watch"
    /\ sch'[s] # sch[s]
    /\ \/ templates[sch[s].tpl] = NoTemplate
       \/ CurrentNext(templates[sch[s].tpl]) > sch[s].now

\* C17: a reservation that succeeds at `now` stores next_run_at = now +
\* interval_seconds, which is strictly later than the value stored before;
\* a call for a template that is absent or not yet due at `now` returns
\* nothing and writes nothing, and the pass does not dispatch the template.
C17_ReserveAdvancesNextRun ==
    [][\A s \in Scheds :
          /\ ReservedBy(s) =>
                LET t == sch[s].tpl
                IN /\ templates[t] # NoTemplate
                   /\ templates'[t].next_run_at = sch[s].now + IntervalOf(t)
                   /\ templates'[t].next_run_at > CurrentNext(templates[t])
                   /\ \A u \in TemplateIds \ {t} : templates'[u] = templates[u]
          /\ RefusedTo(s) =>
                /\ UNCHANGED <<templates, sjobs, sent, reservations>>
                /\ sch'[s].pc \notin {"exec", "create"}
                    \/ sch'[s].tpl # sch[s].tpl]_vars

\* a pass that started after a clock tick reserved template 1, and another
\* instance that listed it as due at the same time now calls the reservation
C17_Witness ==
    \E a, b \in Scheds :
        /\ a # b
        /\ Len(reservations) = 1
        /\ reservations[1] = [tpl |-> 1, at |-> TickSeconds, by |-> a]
        /\ templates[1] # NoTemplate
        /\ templates[1].next_run_at = TickSeconds + IntervalOf(1)
        /\ sch[b].pc = "watch"
        /\ sch[b].tpl = 1
        /\ sch[b].now = TickSeconds

(***************************************************************************)
(* Properties of a failed broker send.                                     *)
(***************************************************************************)
\* C18: a job whose broker send failed in enqueue_job is stored with status
\* `failed` and an error; it is never left `queued`.
C18_SendFailureMarksFailed ==
    enq.pc = "raised" =>
        /\ jobs[enq.job.id].status = "failed"
        /\ jobs[enq.job.id].error # "null"

(***************************************************************************)
(* Properties of the toolkit loader.                                       *)
(***************************************************************************)
\* this step is a load pass for the slug that logged a failure
FailedLoadOf(slug) ==
    /\ lastLoad' # lastLoad
    /\ lastLoad'.slug = slug
    /\ lastLoad'.result \in FailedResults

\* this step is the end of an activation of the slug in which a load failed
FailedActivationOf(slug) ==
    \E c \in Callers :
        /\ act[c].pc = "add"
        /\ act'[c].pc = "idle"
        /\ act[c].slug = slug
        /\ act[c].failed

\* C19: a slug enters the loaded set only through a load that succeeded: a
\* load pass whose import failed, whose register callable was missing or
\* whose register raised does not add the slug, and neither does the
\* activation that ran it.
C19_LoadedOnlyAfterSuccess ==
    [][\A slug \in Slugs :
          (slug \notin loaded /\ (FailedLoadOf(slug) \/ FailedActivationOf(slug)))
              => slug \notin loaded']_vars

\* this step is an activate_toolkit call of c for a slug in the loaded set
ActivatesLoaded(c) ==
    /\ act[c].pc = "idle"
    /\ act'[c] # act[c]
    /\ act'[c].slug \in loaded
    /\ tkRecord[act'[c].slug] = "enabled"

\* C20: an activate_toolkit call for a slug that is in the loaded set returns
\* at once: it imports nothing, mounts no router, calls no register and
\* leaves the loaded set as it was; and every activation that runs to its
\* end leaves the slug in the loaded set, so the next one is such a call.
C20_ActivateIdempotent ==
    [][\A c \in Callers :
          /\ ActivatesLoaded(c) =>
                /\ act'[c].pc = "idle"
                /\ UNCHANGED <<loaded, routers, registered, loads, lastLoad>>
          /\ (act[c].pc = "add" /\ act'[c].pc = "idle") => act[c].slug \in loaded']_vars

\* an activation mounted the router and called register once, and a second
\* activation of the same slug has returned at the loaded check
C20_Witness ==
    \E c \in Callers, slug \in Slugs :
        /\ act[c] = Returned(slug, "already_loaded")
        /\ slug \in loaded
        /\ routers[slug] = 1
        /\ registered[slug] = 1
        /\ loads = 2

(***************************************************************************)
(* Properties of toolkits_update.                                          *)
(***************************************************************************)
\* C21: an update that flips the record's enabled flag from false to true
\* makes exactly one activate_toolkit call, and an update that does not flip
\* it makes none.
C21_ActivationOncePerFlip ==
    [][upd.pc = "decide" /\ upd'.pc # "decide" =>
          activations' = activations + (IF upd.flipped THEN 1 ELSE 0)]_vars

(***************************************************************************)
(* Properties of stored slugs.                                             *)
(***************************************************************************)
\* C22: every stored toolkit row has a slug that is non-empty and made only
\* of the allowed characters (a-z, 0-9, '_' and '-').
C22_StoredSlugsWellFormed ==
    \A slug \in slugRows :
        /\ slug # <<>>
        /\ \A i \in 1..Len(slug) : slug[i] \in ALLOWED_SLUG_CHARS

(***************************************************************************)
(* Properties of bundle ingestion.                                         *)
(***************************************************************************)
\* C23: a request that ends in an error has created or modified no toolkit
\* record and has left neither its bundle file nor its extraction directory
\* behind; and the record is written only after validation and the copy.
C23_FailedIngestionLeavesNothing ==
    /\ (ing.pc = "idle" /\ ing.status >= 400) =>
          /\ ingRow = ing.rowBefore
          /\ ~bundleFile
          /\ ~extractDir
    /\ ing.pc # "idle" => ingRow = ing.rowBefore

\* C24: extraction writes nothing outside the extraction root, and once an
\* entry with a `..` segment, an absolute path, a drive letter or a symlink
\* has been refused the request is answered 400, the extraction directory is
\* gone, no file exists outside the storage directory and no record was
\* written.
C24_ExtractionStaysInRoot ==
    /\ \A path \in fsFiles \cup fsDirs : Under(ExtractRoot, path)
    /\ ing.refused =>
          /\ ing.status = 400
          /\ ~extractDir
          /\ fsFiles = {} /\ fsDirs = {}
          /\ ingRow = ing.rowBefore

\* a bundle's first member was written, its second member was refused, and
\* the request was answered
C24_Witness ==
    /\ ing.refused
    /\ ing.pc = "idle"
    /\ ing.members = 1
    /\ ingests = 1

(***************************************************************************)
(* Properties of run_job's status checks and error handling.               *)
(***************************************************************************)
\* this step is run_job loading the job of task t
Loads(t) == wk[t].pc = "idle" /\ wk'[t].pc \notin {"idle", "discarded"}

LastLog(job) == job.logs[Len(job.logs)]

\* C25: a run_job that loads a `cancelling` job does nothing but store it as
\* `cancelled` with the log "Cancellation acknowledged before execution"; one
\* that loads a `cancelled` job returns at once; neither writes anything else
\* nor invokes the handler.
C25_CancelledJobNotRun ==
    [][\A t \in TaskIds :
          /\ (Loads(t) /\ wk'[t].job # NoJob /\ wk'[t].job.status = "cancelling") =>
                wk'[t].pc = "ack_cancel" /\ UNCHANGED <<jobs, handlerRuns>>
          /\ (Loads(t) /\ wk'[t].job # NoJob /\ wk'[t].job.status = "cancelled") =>
                wk'[t].pc = "done" /\ UNCHANGED <<jobs, handlerRuns>>
          /\ (wk[t].pc = "ack_cancel" /\ wk'[t] # wk[t] /\ wk'[t].pc # "killed") =>
                /\ wk'[t].pc = "done"
                /\ jobs'[wk[t].job.id].status = "cancelled"
                /\ jobs'[wk[t].job.id].logs # <<>>
                /\ LastLog(jobs'[wk[t].job.id]) = "Cancellation acknowledged before execution"
                /\ UNCHANGED handlerRuns]_vars

\* a run_job loaded its job as `cancelling`, stored it `cancelled` and
\* returned, and no handler ever ran for the job
C25_Witness ==
    \E t \in TaskIds :
        /\ wk[t].pc = "done"
        /\ wk[t].job # NoJob
        /\ wk[t].job.status = "cancelled"
        /\ wk[t].job.logs # <<>>
        /\ LastLog(wk[t].job) = "Cancellation acknowledged before execution"
        /\ jobs[wk[t].job.id] = wk[t].job
        /\ handlerRuns[wk[t].job.id] = 0

\* what run_job has stored for the job of task t when the except clause is done
StoredFailure(t) ==
    /\ jobs'[wk[t].job.id].status = "failed"
    /\ jobs'[wk[t].job.id].logs # <<>>
    /\ LastLog(jobs'[wk[t].job.id]) = "Error"

\* C26: when the handler raises, or no handler is registered for the job's
\* type after the lazy load, run_job stores the job as `failed` with the
\* "Error: ..." line as its last log entry, then sets `error` to the message
\* and stores the job again, and returns normally.
C26_HandlerFailureStored ==
    [][\A t \in TaskIds :
          /\ (wk[t].pc = "invoke" /\ wk[t].job.type \notin handlers
                /\ wk'[t] # wk[t] /\ wk'[t].pc # "killed") =>
                wk'[t].pc = "set_error" /\ UNCHANGED handlerRuns
          /\ (wk[t].pc = "invoke" /\ wk'[t].pc = "set_error") =>
                StoredFailure(t)
          /\ (wk[t].pc = "set_error" /\ wk'[t] # wk[t] /\ wk'[t].pc # "killed") =>
                /\ wk'[t].pc = "done"
                /\ StoredFailure(t)
                /\ jobs'[wk[t].job.id].error = "exc"
                /\ UNCHANGED handlerRuns]_vars

\* a handler raised, and run_job returned with the job stored as failed
C26_Witness ==
    \E t \in TaskIds :
        /\ wk[t].pc = "done"
        /\ wk[t].job # NoJob
        /\ wk[t].job.type \in handlers
        /\ handlerRuns[wk[t].job.id] = 1
        /\ jobs[wk[t].job.id].status = "failed"
        /\ jobs[wk[t].job.id].error = "exc"
        /\ LastLog(jobs[wk[t].job.id]) = "Error"

(***************************************************************************)
(* Properties of the login throttle after a success and during a lockout.  *)
(***************************************************************************)
\* the answers of the last n login requests are all failed logins (401 / 403)
LastFailed(n) ==
    /\ Len(answers) >= n
    /\ \A i \in (Len(answers) - n + 1)..Len(answers) : answers[i].status \in {401, 403}

C28_NonRefreshTokenRejected ==
    [][(authResp' # authResp /\ authResp'.op \in PresentedKinds) =>
          /\ authResp'.status = 401
          /\ authResp'.detail \in {"Refresh token invalid", "Token expired"}
          /\ UNCHANGED <<sessions, issuedTokens>>]_vars

\* the access token of a bundle was refused while the bundle's refresh token
\* would have been accepted
C28_Witness ==
    /\ authResp.op = "access"
    /\ authResp.status = 401
    /\ authResp.detail = "Refresh token invalid"
    /\ RefreshOutcome(issuedTokens[authResp.token]) = "ok"

(***************************************************************************)
(* Properties of reinstalling a removed bundled toolkit.                   *)
(***************************************************************************)
\* this step ends an install by caller p of a slug whose bundled record had
\* been deleted, and not installed again, before the install started
Reinstalled(p) ==
    /\ rp[p].op = "install"
    /\ rp[p].slug \in rp[p].fresh
    /\ rp[p].pc # "idle"
    /\ rp'[p].pc = "idle"

\* C29: when a bundled toolkit that was installed and then uninstalled has
\* been installed again, its record exists and is enabled, and there is no
\* removal row for its slug.
C29_ReinstallRestoresEnabled ==
    [][\A p \in Callers :
          Reinstalled(p) =>
             /\ sql'[rp[p].slug] # NoRow
             /\ sql'[rp[p].slug].enabled
             /\ rp[p].slug \notin tomb']_vars

\* this step answers the request that set the lockout
LockingAnswered ==
    LoginAnswered /\ thrResp'.at = "failure" /\ thrResp'.status = 429

\* C30: the audit log gains exactly one lockout event per lockout, from the
\* request that sets it; a request refused because the lockout is active adds
\* no event and leaves the failure counter as it is.
C30_OneLockoutEvent ==
    [][/\ auditLog' = auditLog + (IF LockingAnswered THEN 1 ELSE 0)
       /\ (LoginAnswered /\ thrResp'.at = "lock_check") =>
             failures' = failures /\ lg.flushed = 0]_vars

(***************************************************************************)
(* Properties of the scheduler thread.                                     *)
(***************************************************************************)
\* C31: a worker process never runs more than one scheduler thread.
C31_OneSchedulerThread == stThreads <= 1

(***************************************************************************)
(* Properties of repeated deliveries.                                      *)
(***************************************************************************)
\* C32: the handler of a job is invoked at most once, however many run_job
\* tasks are delivered for the job.
C32_HandlerRunsOnce == \A j \in JobIds : handlerRuns[j] <= 1

(***************************************************************************)
(* Properties of attach_celery_task.                                       *)
(***************************************************************************)
\* the step is the attach_celery_task of enqueue_job or of _resubmit_stale_jobs
Attaching ==
    \/ enq.pc = "attach" /\ enq'.pc = "done"
    \/ rs.pc = "attach" /\ rs'.pc = "log"

AttachedId == IF enq.pc = "attach" /\ enq'.pc = "done" THEN enq.job.id ELSE rs.job.id

\* C33: attaching the broker task id changes only celery_task_id and
\* updated_at of the stored job; status, progress, logs, result and error
\* written by the worker meanwhile stay as they are.
C33_AttachChangesOnlyTaskId ==
    [][Attaching =>
        LET before == jobs[AttachedId]
            after == jobs'[AttachedId]
        IN after = [before EXCEPT !.celery_task_id = after.celery_task_id,
                                  !.updated_at = after.updated_at]]_vars

(***************************************************************************)
(* Properties of concurrent refreshes.                                     *)
(***************************************************************************)
\* C34: of the POST /auth/refresh requests that present the same refresh
\* token, at most one is answered 200.
C34_RefreshSingleUse == \A jti \in 1..MaxTokens : refreshed[jti] <= 1

(***************************************************************************)
(* Properties of cancelling a running job.                                 *)
(***************************************************************************)
\* a run_job for the job has returned
WorkerFinished(j) == \E t \in TaskIds : taskArg[t] = j /\ wk[t].pc = "done"

\* cancel_job found job j running and has returned
CancelReturned(j) == cancelSaw[j] = "running" /\ can.pc = "idle"

\* C35: when cancel_job was called on a running job and both it and the
\* worker's run_job have returned, the job has a terminal status.
C35_CancelEndsTerminal ==
    \A j \in JobIds :
        CancelReturned(j) /\ WorkerFinished(j) => jobs[j].status \in TERMINAL_STATUSES

(***************************************************************************)
(* Properties of update_template.                                          *)
(***************************************************************************)
\* the step is the hset of update_template
Updating == ed.pc = "put" /\ ed'.pc = "idle"

\* reservations of the template made since the update read it
Overlapping == {k \in (ed.seen + 1)..Len(reservations) : reservations[k].tpl = ed.tpl}

\* next_run_at written by the latest of them
ReservationWrote ==
    LET k == CHOOSE x \in Overlapping : \A y \in Overlapping : y <= x
    IN reservations[k].at + ed.current.interval

\* C36: an update_template that keeps the interval and overlaps a successful
\* reservation of the template leaves next_run_at no earlier than the value
\* the reservation wrote.
C36_UpdateKeepsReservation ==
    [][Updating /\ Overlapping # {} /\ ~IntervalChanged(ed.current, ed.interval)
         => templates'[ed.tpl].next_run_at >= ReservationWrote]_vars

\* C39: an update_template that changes the interval stores a next_run_at no
\* earlier than the one the template had, and one that keeps the interval
\* stores the next_run_at the template had.
C39_IntervalUpdateNotEarlier ==
    [][Updating =>
         IF IntervalChanged(ed.current, ed.interval)
         THEN templates'[ed.tpl].next_run_at >= ed.current.next_run_at
         ELSE templates'[ed.tpl].next_run_at = ed.current.next_run_at]_vars

(***************************************************************************)
(* Properties of the audit rows of failed logins.                          *)
(***************************************************************************)
\* this step answers a login that registered a failure
FailureAnswered == LoginAnswered /\ thrResp'.at = "failure"

\* C37: when a failed login has been answered, its auth.login.failure row is
\* in the audit log, and so is its lockout row when the failure set a lockout.
C37_FailureRowsPersist ==
    [][FailureAnswered =>
         /\ failureLog' = failureLog + 1
         /\ auditLog' = auditLog + lg.flushed]_vars

(***************************************************************************)
(* Properties of toolkit module imports.                                   *)
(***************************************************************************)
\* some import_toolkit_module call was made and none is under way
ImportsFinished == imports > 0 /\ \A p \in Importers : im[p].pc = "idle"

\* C38: when the import_toolkit_module calls have finished, the module table
\* holds the host's modules as before and no bundle module, and no toolkit
\* finder is installed.
C38_ImportsIsolated == ImportsFinished => modTable = HostModules /\ metaPath = 0

(***************************************************************************)
(* Liveness of the scheduled dispatch.                                     *)
(***************************************************************************)
\* the template is stored and its next run time has passed
Due(t) == t \in DueTemplates(clock)

\* those of them whose task the broker has
Dispatched(t) == {j \in ScheduledJobsOf(t) : \E n \in 1..Len(sent) : sent[n] = j}

\* every scheduler instance may still start a pass
Room == Len(sjobs) + MaxTemplates * MaxSchedulers <= MaxSchedJobs

====
